---- MODULE Spec2Model ----
(***************************************************************************)
(* Resource table of the Aidoku WASM runtime (GlobalStore, DescriptorScope) *)
(* together with the host-driven entry points that allocate descriptors    *)
(* in it and the imports (std.destroy, net.close, js.context_create) that  *)
(* the plugin uses on it.                                                  *)
(***************************************************************************)
EXTENDS Integers, Sequences, FiniteSets, TLC

VARIABLES
    ridCounter,     \* GlobalStore.ridCounter
    descriptors,    \* GlobalStore.descriptors : rid -> [value, refCount, createdAt]
    requests,       \* GlobalStore.requests    : rid -> [createdAt]
    resources,      \* GlobalStore.resources   : rid -> ResourceType
    now,            \* Date.now(), in milliseconds
    contexts,       \* createJsImports: contexts (the set of live js context ids)
    nextContextId,  \* createJsImports: nextContextId
    scopes,         \* the DescriptorScope objects: id -> [tracked, disposed]
    exports,        \* the plugin's exported functions (instance.exports)
    call,           \* the host-driven call in progress (or the last one returned)
    issued,         \* ghost: every rid returned by an insert, in order
    hist,           \* ghost: per rid, the retains/releases since its insert
    cleaned,        \* ghost: the scopes on which cleanup() has been called
    lastOp,         \* ghost: the operation just performed and what it returned
    partialHomeResultBytes, \* GlobalStore.partialHomeResultBytes
    onPartialHomeBytes,     \* GlobalStore.onPartialHomeBytes: null, or the closure
                            \* of getHomeImpl with its partialComponentsMap
    home,           \* the home call in progress, with what it emitted and delivered
                    \* (during[k]: the emitted partial that invocation k was made for)
    netReqs,        \* WasmRequest fields used by net: rid -> [url, cookie, response]
    cookies,        \* GlobalStore.cookies, in insertion order: <<[key, value], ...>>
    received,       \* ghost: the cookies responses carried, with the request's host
    lastNet,        \* ghost: the net.send just performed, what the bridge did and
                    \* what send returned
    sab,            \* the SharedArrayBuffer: control, status and length cells, data
    worker,         \* createSabWorkerBridge: requestId and the request() in progress
    handlers,       \* createSabMainThreadHandler: per message id, the async handler
    caller,         \* what the entry point handed its caller, and the env.abort
                    \* error raised during the call
    calc,           \* the last call of a decoder or mapping: its input and result
    instance,       \* the worker holding one plugin instance: the calls queued for
                    \* it, the entry points begun and not completed, the last begun
    cells           \* ghost: which handler wrote the buffer's cells and its data,
                    \* the handlers between their stores and their signal, and
                    \* whose stores the worker's loads have seen

\* the resource table, the scopes and the host-driven calls on them
coreVars == <<ridCounter, descriptors, requests, resources, now, contexts,
              nextContextId, scopes, exports, call, issued, hist, cleaned, lastOp>>
\* the home partial-result protocol
homeVars == <<partialHomeResultBytes, onPartialHomeBytes, home>>
\* the net imports and the cookie jar
netVars == <<netReqs, cookies, received, lastNet>>
\* everything outside the resource table
\* the SharedArrayBuffer http bridge
bridgeVars == <<sab, worker, handlers>>
\* the outcome of an entry point as its caller sees it
abortVars == <<caller>>
\* the decoders and mappings, which read no state
calcVars == <<calc>>
\* the worker's event loop
instVars == <<instance>>
\* the writers and readers of the shared buffer
raceVars == <<cells>>
extVars == <<homeVars, netVars, bridgeVars, abortVars, calcVars, instVars, raceVars>>
\* everything outside the home protocol
homeOthers == <<coreVars, netVars, bridgeVars, abortVars, calcVars, instVars, raceVars>>
\* outside the resource table, everything but the net imports
netOthers == <<homeVars, bridgeVars, abortVars, calcVars, instVars, raceVars>>
\* outside the resource table, everything but the entry point's outcome
callOthers == <<homeVars, netVars, bridgeVars, calcVars, instVars, raceVars>>
\* everything outside the http bridge
bridgeOthers == <<coreVars, homeVars, netVars, abortVars, calcVars, instVars, raceVars>>
\* everything a decoder or mapping leaves alone
calcOthers == <<coreVars, homeVars, netVars, bridgeVars, abortVars, instVars, raceVars>>
\* everything outside the worker's event loop
instOthers == <<coreVars, homeVars, netVars, bridgeVars, abortVars, calcVars, raceVars>>
vars == <<coreVars, extVars>>

----------------------------------------------------------------------------
(* Bounds of the model *)

\* inserts (storeStdValue / createRequest) over a store's lifetime
MaxInserts == 2
\* highest reference count a retain may produce
MaxRefCount == 3
\* descriptors tracked by the live scopes, all together
MaxTracked == 2
\* js contexts created
MaxContexts == 1
\* rids a sequence of host-driven calls may allocate in the table
MaxHostRids == 6

----------------------------------------------------------------------------
(* Program constants *)

\* ResourceType
StdValue  == 0
Request   == 1
JsContext == 2
Canvas    == 3
Image     == 4
Font      == 5

\* MEMORY_CONFIG
MAX_DESCRIPTOR_AGE_MS == 300000
MAX_REQUEST_AGE_MS    == 600000
MAX_DESCRIPTORS       == 10000
MAX_REQUESTS          == 1000
\* slack removed beyond the cap by the forced cleanup
DESCRIPTOR_CAP_SLACK  == 100
REQUEST_CAP_SLACK     == 50

\* the clock advances in steps just over the larger age threshold: an entry is
\* then either younger than both thresholds or older than both
TickMs == MAX_REQUEST_AGE_MS + 1

\* payloads a caller may store
Values == {"a"}
\* what a read of a missing entry yields
Undefined == "undefined"

\* kinds that are "stored as StdValue with type markers"
MarkerKinds == {JsContext, Canvas, Image, Font}

----------------------------------------------------------------------------
(* Map helpers (JavaScript Map.set / Map.delete / Map.has) *)

MapSet(m, k, v) == [x \in (DOMAIN m) \cup {k} |-> IF x = k THEN v ELSE m[x]]
MapDelete(m, k) == [x \in (DOMAIN m) \ {k} |-> m[x]]
MapHas(m, k)    == k \in DOMAIN m
EmptyMap        == [x \in {} |-> 0]

----------------------------------------------------------------------------
(* The store as a value: the operations below are functions on it, so that  *)
(* a handler that makes several store calls composes them.                  *)

Store == [ridCounter |-> ridCounter, descriptors |-> descriptors,
          requests |-> requests, resources |-> resources, issued |-> issued]

SetStore(S) ==
    /\ ridCounter'  = S.ridCounter
    /\ descriptors' = S.descriptors
    /\ requests'    = S.requests
    /\ resources'   = S.resources
    /\ issued'      = S.issued

\* allocateRid: this.ridCounter += 1; return this.ridCounter
allocateRid(S) == S.ridCounter + 1

\* reference count of a freshly stored value
InitialRefCount == 1

\* storeStdValue(value), called at time t; the rid it returns is allocateRid(S)
storeStdValue(S, value, t) ==
    LET rid == allocateRid(S) IN
    [S EXCEPT !.ridCounter  = rid,
              !.descriptors = MapSet(@, rid, [value |-> value,
                                              refCount |-> InitialRefCount,
                                              createdAt |-> t]),
              !.resources   = MapSet(@, rid, StdValue),
              !.issued      = Append(@, rid)]

\* readStdValue(descriptor): entry?.value
readStdValue(S, d) ==
    IF MapHas(S.descriptors, d) THEN S.descriptors[d].value ELSE Undefined

retainStdValue_noop(S, d) == S

\* retainStdValue(descriptor): entry.refCount++
retainStdValue(S, d) ==
    IF MapHas(S.descriptors, d)
    THEN [S EXCEPT !.descriptors[d].refCount = @ + 1]
    ELSE S

ReleaseDeletes_offByOne(refCount) == refCount < 0

\* removeStdValue: the test made after the decrement, "if (entry.refCount <= 0)"
ReleaseDeletes(refCount) == refCount <= 0

\* removeStdValue(descriptor): decrement, delete at zero
removeStdValue(S, d) ==
    IF MapHas(S.descriptors, d)
    THEN LET c == S.descriptors[d].refCount - 1 IN
         IF ReleaseDeletes(c)
         THEN [S EXCEPT !.descriptors = MapDelete(@, d),
                        !.resources   = MapDelete(@, d)]
         ELSE [S EXCEPT !.descriptors[d].refCount = c]
    ELSE S

forceRemoveStdValue_counted(S, d) == removeStdValue(S, d)

\* forceRemoveStdValue(descriptor): if (descriptors.delete(d)) resources.delete(d)
forceRemoveStdValue(S, d) ==
    IF MapHas(S.descriptors, d)
    THEN [S EXCEPT !.descriptors = MapDelete(@, d),
                   !.resources   = MapDelete(@, d)]
    ELSE S

\* destroyResource(rid): the store it leaves
destroyResource(S, rid) ==
    IF ~MapHas(S.resources, rid) THEN S
    ELSE LET type == S.resources[rid] IN
         IF type = StdValue THEN forceRemoveStdValue(S, rid)
         ELSE IF type = Request
              THEN [S EXCEPT !.requests  = MapDelete(@, rid),
                             !.resources = MapDelete(@, rid)]
         ELSE IF type \in MarkerKinds THEN forceRemoveStdValue(S, rid)
         ELSE [S EXCEPT !.resources = MapDelete(@, rid)]

\* destroyResource(rid): the boolean it returns
destroyResourceResult(S, rid) ==
    /\ MapHas(S.resources, rid)
    /\ S.resources[rid] \in {StdValue, Request} \cup MarkerKinds

\* registerResource(rid, type)
registerResource(S, rid, type) == [S EXCEPT !.resources = MapSet(@, rid, type)]

\* createRequest(method), called at time t; the rid it returns is allocateRid(S)
createRequest(S, t) ==
    LET rid == allocateRid(S) IN
    [S EXCEPT !.ridCounter = rid,
              !.requests   = MapSet(@, rid, [createdAt |-> t]),
              !.resources  = MapSet(@, rid, Request),
              !.issued     = Append(@, rid)]

\* getRequest(id) is defined
getRequest(S, id) == MapHas(S.requests, id)

\* removeRequest(id): this.requests.delete(id)
removeRequest(S, id) == [S EXCEPT !.requests = MapDelete(@, id)]

\* net.close(descriptor): store.requests.delete(descriptor)
netClose(S, d) == [S EXCEPT !.requests = MapDelete(@, d)]

\* reset(): clears the three maps and rewinds the counter
reset(S) == [S EXCEPT !.descriptors = EmptyMap, !.requests = EmptyMap,
                      !.resources = EmptyMap, !.ridCounter = 0]


\* descending age order of the forced cleanup: sort by createdAt; the sort is
\* stable and a Map iterates in insertion order, which is rid order
Older(m, a, b) ==
    \/ m[a].createdAt < m[b].createdAt
    \/ (m[a].createdAt = m[b].createdAt /\ a < b)

\* .sort(by createdAt).slice(0, n) over the candidate keys C of map m
OldestFirst(m, C, n) == {k \in C : Cardinality({j \in C : Older(m, j, k)}) < n}

\* performCleanup(), called at time t
performCleanup(S, t) ==
    LET staleD == {k \in DOMAIN S.descriptors :
                      /\ S.descriptors[k].refCount <= 0
                      /\ t - S.descriptors[k].createdAt > MAX_DESCRIPTOR_AGE_MS}
        d1     == [k \in (DOMAIN S.descriptors) \ staleD |-> S.descriptors[k]]
        staleR == {k \in DOMAIN S.requests :
                      t - S.requests[k].createdAt > MAX_REQUEST_AGE_MS}
        r1     == [k \in (DOMAIN S.requests) \ staleR |-> S.requests[k]]
        overD  == IF Cardinality(DOMAIN d1) > MAX_DESCRIPTORS
                  THEN OldestFirst(d1, {k \in DOMAIN d1 : d1[k].refCount <= 0},
                           Cardinality(DOMAIN d1) - MAX_DESCRIPTORS + DESCRIPTOR_CAP_SLACK)
                  ELSE {}
        d2     == [k \in (DOMAIN d1) \ overD |-> d1[k]]
        overR  == IF Cardinality(DOMAIN r1) > MAX_REQUESTS
                  THEN OldestFirst(r1, DOMAIN r1,
                           Cardinality(DOMAIN r1) - MAX_REQUESTS + REQUEST_CAP_SLACK)
                  ELSE {}
        r2     == [k \in (DOMAIN r1) \ overR |-> r1[k]]
    IN [S EXCEPT !.descriptors = d2, !.requests = r2]

----------------------------------------------------------------------------
(* Ghost bookkeeping *)

\* a rid has a payload when a read or a request lookup of it returns something
HasPayload(S, rid) == MapHas(S.descriptors, rid) \/ MapHas(S.requests, rid)

NoOp == [op |-> "none", rid |-> 0, flag |-> FALSE, n |-> 0, m |-> 0]
Op(name, rid, flag, n, m) == [op |-> name, rid |-> rid, flag |-> flag, n |-> n, m |-> m]

RefCountOf(S, d) == IF MapHas(S.descriptors, d) THEN S.descriptors[d].refCount ELSE 0

Fresh == [ret |-> 0, rel |-> 0]

\* hist after a step from store S to store S2 that is neither a retain nor a
\* release: a newly stored value starts a fresh history, an entry whose presence
\* or count the step changed drops out of it
HistStep(h, S, S2) ==
    LET born == {r \in DOMAIN S2.descriptors :
                    Len(S2.issued) > Len(S.issued) /\
                    r \in {S2.issued[i] : i \in (Len(S.issued) + 1)..Len(S2.issued)}}
        kept == {r \in (DOMAIN h) \ born :
                    /\ MapHas(S.descriptors, r) = MapHas(S2.descriptors, r)
                    /\ RefCountOf(S, r) = RefCountOf(S2, r)}
    IN [r \in born \cup kept |-> IF r \in born THEN Fresh ELSE h[r]]

\* hist after retain(d): retains count while no release has been seen
HistRetain(h, d) ==
    IF ~MapHas(h, d) THEN h
    ELSE IF h[d].rel = 0 THEN [h EXCEPT ![d].ret = @ + 1]
    ELSE MapDelete(h, d)

\* hist after release(d): up to ret + 1 releases belong to the pattern
HistRelease(h, d) ==
    IF ~MapHas(h, d) THEN h
    ELSE IF h[d].rel <= h[d].ret THEN [h EXCEPT ![d].rel = @ + 1]
    ELSE MapDelete(h, d)

\* rids a caller may pass: 0 is never allocated
RidArgs == 0..MaxInserts

----------------------------------------------------------------------------
(* Initial state: a freshly constructed GlobalStore, no scope, no call *)

\* a null layout, and the layout of components cs
NullLayout == [null |-> TRUE, components |-> <<>>]
Layout(cs) == [null |-> FALSE, components |-> cs]

\* store.onPartialHomeBytes = null
NoCallback == [set |-> FALSE, map |-> <<>>]

\* readResult(...) = null
NoBytes == [kind |-> "none", comps |-> <<>>]

NoHome == [phase |-> "idle", emitted |-> <<>>, delivered |-> <<>>, during |-> <<>>,
           acc |-> <<>>,
           final |-> NoBytes, threw |-> FALSE, result |-> NullLayout]

\* no net.send has been made
NoSend == [op |-> "none", rid |-> 0, ret |-> 0, bridge |-> "none"]

\* createSabBuffer(): a zeroed buffer; data names the response whose bytes it holds
NewSab == [control |-> 0, status |-> 0, bodyLength |-> 0, headersLength |-> 0,
           data |-> 0]

\* the status-0 response the bridge returns for a timeout or an empty response
FailedResponse == [status |-> 0, headers |-> 0, body |-> 0]

\* createSabWorkerBridge(): requestId = 0, no request() made yet
NoRequest == [phase |-> "idle", requestId |-> 0, wait |-> "none",
              response |-> FailedResponse, ownFailed |-> FALSE]

\* no Error object
NoError == [source |-> "none", msg |-> <<>>, file |-> <<>>, line |-> 0, col |-> 0]

\* no entry point has returned yet
NoReturn == [kind |-> "none", error |-> NoError, abort |-> NoError]

\* no decoder or mapping has been called
NoCalc == [op |-> "none"]

\* nothing has been written to the buffer or loaded from it
NoCells == [cellsBy |-> 0, dataBy |-> 0, writing |-> {}, seen |-> {}]

\* a loaded instance on which nothing has been called
IdleInstance == [inbox |-> <<>>, active |-> <<>>,
                 last |-> [ep |-> "none", others |-> <<>>]]

\* the fields of a fresh GlobalStore outside the resource table, and the bridge
InitExt ==
    /\ partialHomeResultBytes = <<>>
    /\ onPartialHomeBytes = NoCallback
    /\ home = NoHome
    /\ netReqs = EmptyMap
    /\ cookies = <<>>
    /\ received = {}
    /\ lastNet = NoSend
    /\ sab = NewSab
    /\ worker = NoRequest
    /\ handlers = <<>>
    /\ caller = NoReturn
    /\ calc = NoCalc
    /\ instance = IdleInstance
    /\ cells = NoCells

NoCall == [ep |-> "none", phase |-> "idle", path |-> "none", scope |-> 0,
           hostRids |-> {}, reqId |-> 0, outcome |-> "none"]

\* a plugin of the modern ABI
ModernPlugin == {"get_search_manga_list", "get_manga_update", "get_page_list",
                 "get_manga_list", "get_image_request", "process_page_image"}
\* a plugin of the legacy ABI
LegacyPlugin == {"get_manga_list", "get_manga_details", "get_chapter_list",
                 "get_page_list", "modify_image_request"}

Init ==
    /\ exports = ModernPlugin
    /\ ridCounter = 0
    /\ descriptors = EmptyMap
    /\ requests = EmptyMap
    /\ resources = EmptyMap
    /\ now = 0
    /\ contexts = {}
    /\ nextContextId = 1
    /\ scopes = EmptyMap
    /\ call = NoCall
    /\ issued = <<>>
    /\ hist = EmptyMap
    /\ cleaned = {}
    /\ lastOp = NoOp
    /\ InitExt

\* a store step to S2 that is neither retain nor release, recorded as op
StoreStep(S2, op) ==
    /\ SetStore(S2)
    /\ hist' = HistStep(hist, Store, S2)
    /\ lastOp' = op

----------------------------------------------------------------------------
(* Operations of the store *)

StoreStdValue ==
    /\ Len(issued) < MaxInserts
    /\ \E v \in Values : StoreStep(storeStdValue(Store, v, now), NoOp)
    /\ UNCHANGED <<now, contexts, nextContextId, scopes, exports, call, cleaned>>
    /\ UNCHANGED extVars

CreateRequest ==
    /\ Len(issued) < MaxInserts
    /\ StoreStep(createRequest(Store, now), NoOp)
    /\ UNCHANGED <<now, contexts, nextContextId, scopes, exports, call, cleaned>>
    /\ UNCHANGED extVars

RetainStdValue ==
    /\ \E d \in RidArgs :
        /\ RefCountOf(Store, d) < MaxRefCount
        /\ SetStore(retainStdValue(Store, d))
        /\ hist' = HistRetain(hist, d)
        /\ lastOp' = NoOp
    /\ UNCHANGED <<now, contexts, nextContextId, scopes, exports, call, cleaned>>
    /\ UNCHANGED extVars

RemoveStdValue ==
    /\ \E d \in RidArgs :
        /\ SetStore(removeStdValue(Store, d))
        /\ hist' = HistRelease(hist, d)
        /\ lastOp' = NoOp
    /\ UNCHANGED <<now, contexts, nextContextId, scopes, exports, call, cleaned>>
    /\ UNCHANGED extVars

ForceRemoveStdValue ==
    /\ \E d \in RidArgs :
        StoreStep(forceRemoveStdValue(Store, d),
                  Op("forceRemove", d, RefCountOf(Store, d) > InitialRefCount, 0, 0))
    /\ UNCHANGED <<now, contexts, nextContextId, scopes, exports, call, cleaned>>
    /\ UNCHANGED extVars

\* std.destroy(descriptor): store.destroyResource(descriptor)
DestroyResource ==
    /\ \E rid \in RidArgs :
        StoreStep(destroyResource(Store, rid),
                  Op("destroy", rid, destroyResourceResult(Store, rid),
                     IF HasPayload(Store, rid) THEN 1 ELSE 0, 0))
    /\ UNCHANGED <<now, contexts, nextContextId, scopes, exports, call, cleaned>>
    /\ UNCHANGED extVars

RegisterResource ==
    /\ \E rid \in DOMAIN descriptors, type \in MarkerKinds :
        StoreStep(registerResource(Store, rid, type), NoOp)
    /\ UNCHANGED <<now, contexts, nextContextId, scopes, exports, call, cleaned>>
    /\ UNCHANGED extVars

RemoveRequest ==
    /\ \E id \in RidArgs : StoreStep(removeRequest(Store, id), NoOp)
    /\ UNCHANGED <<now, contexts, nextContextId, scopes, exports, call, cleaned>>
    /\ UNCHANGED extVars

NetClose ==
    /\ \E d \in RidArgs : StoreStep(netClose(Store, d), NoOp)
    /\ UNCHANGED <<now, contexts, nextContextId, scopes, exports, call, cleaned>>
    /\ UNCHANGED extVars

PerformCleanup ==
    /\ StoreStep(performCleanup(Store, now), NoOp)
    /\ UNCHANGED <<now, contexts, nextContextId, scopes, exports, call, cleaned>>
    /\ UNCHANGED extVars

Reset ==
    /\ StoreStep(reset(Store), NoOp)
    /\ UNCHANGED <<now, contexts, nextContextId, scopes, exports, call, cleaned>>
    /\ UNCHANGED extVars

\* Date.now() advances
Tick ==
    /\ now <= MAX_REQUEST_AGE_MS
    /\ now' = now + TickMs
    /\ lastOp' = NoOp
    /\ UNCHANGED <<ridCounter, descriptors, requests, resources, contexts,
                   nextContextId, scopes, exports, call, issued, hist, cleaned>>
    /\ UNCHANGED extVars

\* js.context_create(): rid = nextContextId++; contexts.set(rid, new JsContext())
JsContextCreate ==
    /\ nextContextId <= MaxContexts
    /\ contexts' = contexts \cup {nextContextId}
    /\ nextContextId' = nextContextId + 1
    /\ lastOp' = NoOp
    /\ UNCHANGED <<ridCounter, descriptors, requests, resources, now, scopes,
                   exports, call, issued, hist, cleaned>>
    /\ UNCHANGED extVars

Next ==
    \/ StoreStdValue
    \/ CreateRequest
    \/ RetainStdValue
    \/ RemoveStdValue
    \/ ForceRemoveStdValue
    \/ DestroyResource
    \/ RemoveRequest
    \/ NetClose
    \/ PerformCleanup
    \/ Reset
    \/ Tick

Spec == Init /\ [][Next]_vars

----------------------------------------------------------------------------
(* DescriptorScope *)

Range(q) == {q[i] : i \in 1..Len(q)}

NewScope == [tracked |-> <<>>, disposed |-> FALSE]

\* the DescriptorScope objects of the model: the scope a cleanup is about and
\* one other scope
ScopeIds == {1, 2}

\* the next DescriptorScope object
NextScopeId == Cardinality(DOMAIN scopes) + 1

\* track(descriptor) on a live scope: if (descriptor > 0) this.tracked.push(descriptor)
track(sc, d) == IF d > 0 THEN [sc EXCEPT !.tracked = Append(@, d)] ELSE sc

ForEachTracked_skipFirst(tracked) == IF tracked = <<>> THEN <<>> ELSE Tail(tracked)

\* cleanup(): the descriptors visited by "for (const descriptor of this.tracked)"
ForEachTracked(tracked) == tracked

RECURSIVE forceRemoveAll(_, _)
\* cleanup(): the loop body, globalStore.forceRemoveStdValue(descriptor), in order
forceRemoveAll(S, q) ==
    IF q = <<>> THEN S ELSE forceRemoveAll(forceRemoveStdValue(S, Head(q)), Tail(q))

DisposedAfterCleanup_unset == FALSE

\* cleanup(): this.disposed = true
DisposedAfterCleanup == TRUE

\* cleanup(): the store it leaves
cleanupStore(S, sc) ==
    IF sc.disposed THEN S ELSE forceRemoveAll(S, ForEachTracked(sc.tracked))

\* cleanup(): the scope it leaves
cleanupScope(sc) ==
    IF sc.disposed THEN sc
    ELSE [sc EXCEPT !.disposed = DisposedAfterCleanup, !.tracked = <<>>]

\* tracked rids of sc whose entry has been retained
RetainedIn(S, sc) == {r \in Range(sc.tracked) : RefCountOf(S, r) > InitialRefCount}

RECURSIVE SumTracked(_, _)
SumTracked(sm, ids) ==
    IF ids = {} THEN 0
    ELSE LET s == CHOOSE x \in ids : TRUE
         IN Len(sm[s].tracked) + SumTracked(sm, ids \ {s})

\* tracked descriptors over all scopes
TotalTracked == SumTracked(scopes, DOMAIN scopes)

\* store.createScope()
CreateScope ==
    /\ NextScopeId \in ScopeIds
    /\ scopes' = MapSet(scopes, NextScopeId, NewScope)
    /\ lastOp' = NoOp
    /\ UNCHANGED <<ridCounter, descriptors, requests, resources, now, contexts,
                   nextContextId, exports, call, issued, hist, cleaned>>
    /\ UNCHANGED extVars

\* scope.track(descriptor), the descriptor being one storeStdValue returned, or
\* an invalid one (0, -1); on a disposed scope it throws and changes nothing
ScopeTrack ==
    /\ \E s \in DOMAIN scopes, d \in {-1, 0} \cup DOMAIN descriptors :
        /\ TotalTracked < MaxTracked
        /\ scopes' = IF scopes[s].disposed THEN scopes
                     ELSE [scopes EXCEPT ![s] = track(@, d)]
        /\ lastOp' = NoOp
    /\ UNCHANGED <<ridCounter, descriptors, requests, resources, now, contexts,
                   nextContextId, exports, call, issued, hist, cleaned>>
    /\ UNCHANGED extVars

\* scope.storeValue(value): this.track(this.globalStore.storeStdValue(value)); on
\* a disposed scope the value is stored before track throws
ScopeStoreValue ==
    /\ Len(issued) < MaxInserts
    /\ \E s \in DOMAIN scopes, v \in Values :
        /\ TotalTracked < MaxTracked
        /\ LET S2 == storeStdValue(Store, v, now) IN
            /\ StoreStep(S2, NoOp)
            /\ scopes' = IF scopes[s].disposed THEN scopes
                         ELSE [scopes EXCEPT ![s] = track(@, allocateRid(Store))]
    /\ UNCHANGED <<now, contexts, nextContextId, exports, call, cleaned>>
    /\ UNCHANGED extVars

\* scope.cleanup()
ScopeCleanup ==
    /\ \E s \in DOMAIN scopes :
        /\ StoreStep(cleanupStore(Store, scopes[s]),
                     Op("cleanup", s, s \in cleaned, Len(scopes[s].tracked),
                        Cardinality(RetainedIn(Store, scopes[s]))))
        /\ scopes' = [scopes EXCEPT ![s] = cleanupScope(@)]
        /\ cleaned' = cleaned \cup {s}
    /\ UNCHANGED <<now, contexts, nextContextId, exports, call>>
    /\ UNCHANGED extVars

NextScope ==
    \/ CreateScope
    \/ ScopeTrack
    \/ ScopeStoreValue
    \/ ScopeCleanup
    \/ StoreStdValue
    \/ CreateRequest
    \/ RetainStdValue
    \/ DestroyResource

SpecScope == Init /\ [][NextScope]_vars

----------------------------------------------------------------------------
(* Host-driven entry points (createLoadSource) and the plugin's imports *)

detectRuntimeMode_legacyFirst(ex) ==
    IF "get_manga_details" \in ex \/ "get_chapter_list" \in ex THEN "legacy"
    ELSE "aidoku-rs"

detectRuntimeMode_withMangaList(ex) ==
    IF "get_search_manga_list" \in ex \/ "get_manga_update" \in ex THEN "aidoku-rs"
    ELSE IF "get_manga_details" \in ex \/ "get_chapter_list" \in ex
            \/ "get_manga_list" \in ex THEN "legacy"
    ELSE "aidoku-rs"

\* detectRuntimeMode(exports)
detectRuntimeMode(ex) ==
    IF "get_search_manga_list" \in ex \/ "get_manga_update" \in ex THEN "aidoku-rs"
    ELSE IF "get_manga_details" \in ex \/ "get_chapter_list" \in ex THEN "legacy"
    ELSE "aidoku-rs"

isNewAbi == detectRuntimeMode(exports) = "aidoku-rs"

EntryPoints == {"getSearchMangaList", "getMangaDetails", "getChapterList",
                "getPageList", "getMangaListForListing", "modifyImageRequest",
                "processPageImage"}

\* the branch an entry point takes: "legacy" (old ABI export), "modern" (new ABI
\* export) or "absent" (no export: it returns its default at once)
PathOf(ep) ==
    CASE ep = "getSearchMangaList" ->
            IF ~isNewAbi /\ "get_manga_list" \in exports THEN "legacy"
            ELSE IF "get_search_manga_list" \in exports THEN "modern" ELSE "absent"
      [] ep = "getMangaDetails" ->
            IF ~isNewAbi /\ "get_manga_details" \in exports THEN "legacy"
            ELSE IF "get_manga_update" \in exports THEN "modern" ELSE "absent"
      [] ep = "getChapterList" ->
            IF ~isNewAbi /\ "get_chapter_list" \in exports THEN "legacy"
            ELSE IF "get_manga_update" \in exports THEN "modern" ELSE "absent"
      [] ep = "getPageList" ->
            IF ~isNewAbi /\ "get_page_list" \in exports THEN "legacy"
            ELSE IF isNewAbi /\ "get_page_list" \in exports THEN "modern" ELSE "absent"
      [] ep = "getMangaListForListing" ->
            IF "get_manga_list" \in exports /\ isNewAbi THEN "modern" ELSE "absent"
      [] ep = "modifyImageRequest" ->
            IF "modify_image_request" \in exports THEN "legacy"
            ELSE IF "get_image_request" \in exports THEN "modern" ELSE "absent"
      [] ep = "processPageImage" ->
            IF "process_page_image" \in exports THEN "modern" ELSE "absent"

\* the encoded arguments an entry point stores through scope.storeValue; opt says
\* whether the optional one (query, context) is given
ScopedArgs(ep, path, opt) ==
    CASE ep = "getSearchMangaList" -> IF path = "modern" /\ opt THEN 2 ELSE 1
      [] ep = "getMangaDetails" -> 1
      [] ep = "getChapterList" -> 1
      [] ep = "getPageList" -> IF path = "modern" THEN 2 ELSE 1
      [] ep = "getMangaListForListing" -> 1
      [] ep = "modifyImageRequest" -> IF path = "legacy" THEN 0 ELSE IF opt THEN 2 ELSE 1
      [] ep = "processPageImage" -> IF opt THEN 2 ELSE 1

RECURSIVE storeValues(_, _, _, _)
\* n times scope.storeValue(bytes): <<store, scope>>
storeValues(S, sc, n, t) ==
    IF n = 0 THEN <<S, sc>>
    ELSE storeValues(storeStdValue(S, "a", t), track(sc, allocateRid(S)), n - 1, t)

\* createHostImage(store, imageData): store.storeStdValue(resource)
createHostImage(S, t) == storeStdValue(S, "a", t)

\* the store and scope at the moment the entry point calls the plugin export
EnterCall(S, ep, path, opt, t) ==
    IF ep = "modifyImageRequest" /\ path = "legacy"
    THEN <<createRequest(S, t), NewScope>>
    ELSE IF ep = "processPageImage"
    THEN storeValues(createHostImage(S, t), NewScope, ScopedArgs(ep, path, opt), t)
    ELSE storeValues(S, NewScope, ScopedArgs(ep, path, opt), t)

\* the host begins an entry point: it allocates its descriptors and calls the export
BeginCall ==
    /\ call.phase \in {"idle", "returned"}
    /\ ridCounter + 3 <= MaxHostRids
    /\ \E ep \in EntryPoints, opt \in BOOLEAN :
        LET path == PathOf(ep) IN
        IF path = "absent"
        THEN /\ call' = [NoCall EXCEPT !.ep = ep, !.phase = "returned",
                                       !.path = path, !.outcome = "default"]
             /\ lastOp' = NoOp
             /\ UNCHANGED <<ridCounter, descriptors, requests, resources, issued,
                            hist, scopes>>
        ELSE LET E  == EnterCall(Store, ep, path, opt, now)
                 S2 == E[1]
                 id == NextScopeId
                 scoped == ~(ep = "modifyImageRequest" /\ path = "legacy")
             IN /\ StoreStep(S2, NoOp)
                /\ scopes' = IF scoped THEN MapSet(scopes, id, E[2]) ELSE scopes
                /\ call' = [ep |-> ep, phase |-> "plugin", path |-> path,
                            scope |-> IF scoped THEN id ELSE 0,
                            hostRids |-> (ridCounter + 1)..S2.ridCounter,
                            reqId |-> IF scoped THEN 0 ELSE S2.ridCounter,
                            outcome |-> "none"]
    /\ caller' = IF PathOf(call'.ep) = "absent"
                  THEN [NoReturn EXCEPT !.kind = "fallback"] ELSE NoReturn
    /\ UNCHANGED <<now, contexts, nextContextId, exports, cleaned>>
    /\ UNCHANGED callOthers

\* a plugin import that stores a value (std.create_*, html.parse, json.parse, ...)
PluginStoreValue ==
    /\ call.phase = "plugin"
    /\ ridCounter < MaxHostRids
    /\ StoreStep(storeStdValue(Store, "a", now), NoOp)
    /\ UNCHANGED <<now, contexts, nextContextId, scopes, exports, call, cleaned>>
    /\ UNCHANGED extVars

\* net.init(method): store.createRequest(method)
PluginNetInit ==
    /\ call.phase = "plugin"
    /\ ridCounter < MaxHostRids
    /\ StoreStep(createRequest(Store, now), NoOp)
    /\ UNCHANGED <<now, contexts, nextContextId, scopes, exports, call, cleaned>>
    /\ UNCHANGED extVars

\* std.destroy(descriptor) called by the plugin
PluginDestroy ==
    /\ call.phase = "plugin"
    /\ \E rid \in 1..ridCounter : StoreStep(destroyResource(Store, rid), NoOp)
    /\ UNCHANGED <<now, contexts, nextContextId, scopes, exports, call, cleaned>>
    /\ UNCHANGED extVars

\* net.close(descriptor) called by the plugin
PluginNetClose ==
    /\ call.phase = "plugin"
    /\ \E rid \in DOMAIN requests : StoreStep(netClose(Store, rid), NoOp)
    /\ UNCHANGED <<now, contexts, nextContextId, scopes, exports, call, cleaned>>
    /\ UNCHANGED extVars

\* how the export ended: it returned a result the host decodes, it returned an
\* error code (a negative pointer or descriptor), its result failed to decode,
\* or it threw
Outcomes == {"decoded", "errorCode", "decodeFailed", "threw"}

\* what the entry point does to the store once the export has ended, before the
\* finally block; r is the descriptor or rid the plugin's result names
AfterExport(S, c, outcome, r) ==
    IF c.ep = "modifyImageRequest" /\ c.path = "legacy"
    THEN removeRequest(S, c.reqId)
    ELSE IF c.ep = "modifyImageRequest"
    THEN IF outcome = "decoded" /\ getRequest(S, r) THEN removeRequest(S, r) ELSE S
    ELSE IF c.ep = "processPageImage" THEN S
    ELSE IF c.path = "legacy" /\ outcome = "decoded" /\ r >= 0
    THEN removeStdValue(S, r)
    ELSE S

\* the finally block: scope.cleanup()
FinallyCleanup(S, c, sm) ==
    IF c.scope = 0 THEN S ELSE cleanupStore(S, sm[c.scope])

\* what the entry point hands its caller: the decoded value, or, from an early
\* return or from its catch block (console.error, then return), the fallback
\* ([], the argument, { entries: [], hasNextPage: false }, null); e is the error
\* env.abort constructed, if it was called
returnToCaller(outcome, e) ==
    [kind |-> IF outcome = "decoded" THEN "value" ELSE "fallback",
     error |-> NoError, abort |-> e]

\* the export ends and the entry point returns to its caller
EndCall ==
    /\ call.phase = "plugin"
    /\ \E outcome \in Outcomes, r \in 0..ridCounter :
        /\ StoreStep(FinallyCleanup(AfterExport(Store, call, outcome, r), call, scopes),
                     NoOp)
        /\ call' = [call EXCEPT !.phase = "returned", !.outcome = outcome]
    /\ scopes' = IF call.scope = 0 THEN scopes ELSE MapDelete(scopes, call.scope)
    /\ cleaned' = cleaned
    /\ caller' = returnToCaller(call'.outcome, NoError)
    /\ UNCHANGED <<now, contexts, nextContextId, exports>>
    /\ UNCHANGED callOthers

\* a plugin of either ABI is loaded
InitHost ==
    /\ exports \in {ModernPlugin, LegacyPlugin}
    /\ ridCounter = 0
    /\ descriptors = EmptyMap
    /\ requests = EmptyMap
    /\ resources = EmptyMap
    /\ now = 0
    /\ contexts = {}
    /\ nextContextId = 1
    /\ scopes = EmptyMap
    /\ call = NoCall
    /\ issued = <<>>
    /\ hist = EmptyMap
    /\ cleaned = {}
    /\ lastOp = NoOp
    /\ InitExt

NextHost ==
    \/ BeginCall
    \/ PluginStoreValue
    \/ PluginNetInit
    \/ PluginDestroy
    \/ PluginNetClose
    \/ EndCall

SpecHost == InitHost /\ [][NextHost]_vars

----------------------------------------------------------------------------
(* std.destroy over the resource kinds *)

NextDestroy ==
    \/ StoreStdValue
    \/ CreateRequest
    \/ RegisterResource
    \/ JsContextCreate
    \/ RetainStdValue
    \/ RemoveRequest
    \/ DestroyResource

SpecDestroy == Init /\ [][NextDestroy]_vars

----------------------------------------------------------------------------
(* Properties *)

\* no lookup of rid finds anything: readStdValue, getRequest, and the js
\* imports' contexts.get
NothingAt(rid) ==
    /\ readStdValue(Store, rid) = Undefined
    /\ ~getRequest(Store, rid)
    /\ rid \notin contexts

\* C1: once a host-driven entry point has returned, by whatever path, no rid
\* that the host allocated for that call still has an entry in the table.
C1_HostRidsReleased ==
    call.phase = "returned" => \A r \in call.hostRids : ~HasPayload(Store, r)

\* C2: the rids returned by the inserts into one store are strictly increasing,
\* so none is returned twice.
C2_RidsStrictlyIncreasing ==
    \A i, j \in 1..Len(issued) : i < j => issued[i] < issued[j]

\* C3: the rids that have a payload (a stored value or a request) are exactly
\* the rids that have a kind tag.
C3_PayloadIffKind ==
    (DOMAIN descriptors) \cup (DOMAIN requests) = DOMAIN resources

\* C4: after destroy(rid), no read or lookup of rid returns anything, whatever
\* kind of resource rid named.
C4_DestroyRemovesAnyKind ==
    lastOp.op = "destroy" => NothingAt(lastOp.rid)

\* C5: an entry that has seen k retains followed by k releases is present and
\* readable; after one more release it is gone.
C5_RetainReleaseBalance ==
    \A r \in DOMAIN hist :
        /\ hist[r].rel = hist[r].ret => readStdValue(Store, r) \in Values
        /\ hist[r].rel = hist[r].ret + 1 =>
              (readStdValue(Store, r) = Undefined /\ ~MapHas(descriptors, r))

C5_Witness ==
    \E r \in DOMAIN hist :
        hist[r].ret >= 2 /\ hist[r].rel = hist[r].ret + 1 /\ ~MapHas(descriptors, r)

\* C6: no entry of the table has a reference count below one: the count never
\* goes negative, and an entry whose count a release brought to zero is removed.
C6_RefCountPositive ==
    \A r \in DOMAIN descriptors : descriptors[r].refCount >= 1

C6_Witness ==
    \E r \in DOMAIN hist :
        hist[r].ret = 1 /\ hist[r].rel = 2 /\ ~MapHas(descriptors, r)

\* C7: after force-remove of an entry, whatever its reference count was, the
\* entry is gone and a read returns nothing.
C7_ForceRemoveIgnoresCount ==
    lastOp.op = "forceRemove" =>
        (readStdValue(Store, lastOp.rid) = Undefined /\ ~MapHas(descriptors, lastOp.rid))

C7_Witness ==
    lastOp.op = "forceRemove" /\ lastOp.flag /\ ~MapHas(descriptors, lastOp.rid)

\* what the table holds for rid
EntryAt(S, rid) ==
    <<IF MapHas(S.descriptors, rid) THEN {S.descriptors[rid]} ELSE {},
      IF MapHas(S.requests, rid) THEN {S.requests[rid]} ELSE {},
      IF MapHas(S.resources, rid) THEN {S.resources[rid]} ELSE {}>>

\* C8: the first cleanup of a scope removes every rid the scope tracked,
\* whatever its reference count, and leaves every other rid as it was.
C8_CleanupRemovesExactlyTracked ==
    [][(lastOp'.op = "cleanup" /\ lastOp'.rid \notin cleaned) =>
         LET tracked == Range(scopes[lastOp'.rid].tracked) IN
         \A r \in RidArgs :
            IF r \in tracked
            THEN ~MapHas(descriptors', r) /\ readStdValue(Store', r) = Undefined
            ELSE EntryAt(Store', r) = EntryAt(Store, r)]_vars

C8_Witness ==
    /\ lastOp.op = "cleanup"
    /\ ~lastOp.flag
    /\ lastOp.n >= 1
    /\ lastOp.m >= 1
    /\ \E s \in DOMAIN scopes :
          /\ s # lastOp.rid
          /\ \E r \in Range(scopes[s].tracked) : MapHas(descriptors, r)

\* C9: a cleanup of a scope that has been cleaned up before changes nothing in
\* the table.
C9_SecondCleanupNoOp ==
    [][(lastOp'.op = "cleanup" /\ lastOp'.rid \in cleaned) =>
         /\ descriptors' = descriptors
         /\ requests' = requests
         /\ resources' = resources
         /\ ridCounter' = ridCounter]_vars

C9_Witness ==
    /\ lastOp.op = "cleanup"
    /\ lastOp.flag
    /\ DOMAIN descriptors # {}

\* C10: destroy(rid) returns true exactly when rid had an entry (a payload a
\* read or lookup would return) immediately before the call.
C10_DestroyReportsExistence ==
    lastOp.op = "destroy" => (lastOp.flag <=> lastOp.n = 1)

----------------------------------------------------------------------------
(* The periodic sweeper (startCleanupTimer) over plugin-allocated entries *)

NextSweep ==
    \/ StoreStdValue
    \/ CreateRequest
    \/ RetainStdValue
    \/ RemoveStdValue
    \/ DestroyResource
    \/ Tick
    \/ PerformCleanup

\* setInterval keeps firing performCleanup, and the clock keeps advancing
SpecSweep ==
    /\ Init
    /\ [][NextSweep]_vars
    /\ WF_vars(Tick)
    /\ WF_vars(PerformCleanup)

\* C11: a descriptor whose age exceeds the descriptor-age threshold is
\* eventually out of the table, whether the plugin destroys it or the sweeper
\* collects it.
C11_LeakedEventuallyCollected ==
    \A r \in RidArgs :
        [](  (MapHas(descriptors, r) /\
              now - descriptors[r].createdAt > MAX_DESCRIPTOR_AGE_MS)
           => <>(~MapHas(descriptors, r)))

----------------------------------------------------------------------------
(* Home partial-result protocol: getHomeImpl and env.send_partial_result *)

\* partials captured during one home call
MaxPartials == 3

\* a component without title (decodeHomeComponent: title ?? undefined)
NoTitle == "<none>"

HomeComponents ==
    {[title |-> "A", body |-> 1], [title |-> "A", body |-> 2],
     [title |-> "B", body |-> 1], [title |-> NoTitle, body |-> 1],
     [title |-> "_idx_1", body |-> 1]}

\* the layouts a Layout partial or the final result may encode
HomeLayouts ==
    {<<>>,
     <<[title |-> "A", body |-> 2]>>,
     <<[title |-> NoTitle, body |-> 1], [title |-> "B", body |-> 1]>>}

\* what send_partial_result may be handed: a Component or a Layout partial, bytes
\* that do not decode, a variant byte other than 0 and 1, or a value of len <= 8
PartialPayloads ==
    {[kind |-> "component", comps |-> <<c>>] : c \in HomeComponents}
    \cup {[kind |-> "layout", comps |-> l] : l \in HomeLayouts}
    \cup {[kind |-> k, comps |-> <<>>] : k \in {"malformed", "other", "short"}}

\* what readResult(getHome()) may be: null, the bytes of a layout, or bytes
\* that decodeHomeLayout throws on
FinalResults ==
    {[kind |-> "layout", comps |-> l] : l \in HomeLayouts}
    \cup {[kind |-> k, comps |-> <<>>] : k \in {"none", "malformed"}}

\* `_idx_${size}`
IdxKey(size) ==
    <<"_idx_0", "_idx_1", "_idx_2", "_idx_3", "_idx_4", "_idx_5", "_idx_6">>[size + 1]

\* component.title ?? `_idx_${partialComponentsMap.size}`
componentKey(c, size) ==
    IF c.title # NoTitle THEN c.title ELSE IdxKey(size)

partialComponentsMapSet_prepend(map, key, comp) ==
    <<[key |-> key, comp |-> comp]>> \o map

\* partialComponentsMap.set(key, component): a Map keeps insertion order and
\* replaces the value of a key it already has in place
partialComponentsMapSet(map, key, comp) ==
    IF \E i \in DOMAIN map : map[i].key = key
    THEN [i \in DOMAIN map |->
            IF map[i].key = key THEN [key |-> key, comp |-> comp] ELSE map[i]]
    ELSE Append(map, [key |-> key, comp |-> comp])

\* Array.from(partialComponentsMap.values())
mapValues(map) == [i \in DOMAIN map |-> map[i].comp]

RECURSIVE accumulate(_, _)
\* for (const component of layout.components) { key = ...; map.set(key, component) }
accumulate(map, comps) ==
    IF comps = <<>> THEN map
    ELSE accumulate(
            partialComponentsMapSet(map, componentKey(Head(comps), Len(map)), Head(comps)),
            Tail(comps))

\* the closure store.onPartialHomeBytes: the map it leaves
callbackMap(map, p) ==
    IF p.kind \in {"component", "layout"} THEN accumulate(map, p.comps) ELSE map

\* the closure handing onPartial the layout it had before this partial
callbackEmits_beforeSet(map, p) ==
    IF p.kind = "malformed" THEN <<>>
    ELSE LET accumulatedComponents == mapValues(map)
         IN IF Len(accumulatedComponents) > 0 THEN <<accumulatedComponents>> ELSE <<>>

\* the closure store.onPartialHomeBytes: the layouts it hands to onPartial
callbackEmits(map, p) ==
    IF p.kind = "malformed" THEN <<>>
    ELSE LET accumulatedComponents == mapValues(callbackMap(map, p))
         IN IF Len(accumulatedComponents) > 0 THEN <<accumulatedComponents>> ELSE <<>>

\* env.send_partial_result(valuePtr) with payload p
send_partial_result(p) ==
    IF p.kind = "short"
    THEN UNCHANGED <<partialHomeResultBytes, onPartialHomeBytes>>
         /\ home' = home
    ELSE /\ partialHomeResultBytes' = Append(partialHomeResultBytes, p)
         /\ IF ~onPartialHomeBytes.set
            THEN /\ onPartialHomeBytes' = onPartialHomeBytes
                 /\ home' = [home EXCEPT !.emitted = Append(@, p)]
            ELSE /\ onPartialHomeBytes' = [set |-> TRUE,
                                        map |-> callbackMap(onPartialHomeBytes.map, p)]
                 /\ home' = [home EXCEPT
                        !.emitted = Append(@, p),
                        !.delivered = @ \o callbackEmits(onPartialHomeBytes.map, p),
                        !.during = @ \o [k \in DOMAIN callbackEmits(onPartialHomeBytes.map, p)
                                            |-> Len(home.emitted) + 1]]

\* getHome() / getHomeWithPartials(onPartial) up to the call of the export
HomeBegin ==
    /\ home.phase \in {"idle", "returned"}
    /\ IF "get_home" \in exports
       THEN /\ partialHomeResultBytes' = <<>>
            /\ onPartialHomeBytes' = [set |-> TRUE, map |-> <<>>]
            /\ home' = [NoHome EXCEPT !.phase = "plugin"]
       ELSE /\ home' = [NoHome EXCEPT !.phase = "returned"]
            /\ UNCHANGED <<partialHomeResultBytes, onPartialHomeBytes>>
    /\ UNCHANGED homeOthers

\* the plugin calls send_partial_result during its home call
SendPartialResult ==
    /\ home.phase = "plugin"
    /\ Len(partialHomeResultBytes) < MaxPartials
    /\ \E p \in PartialPayloads : send_partial_result(p)
    /\ UNCHANGED homeOthers

\* the layout getHomeImpl returns once the export has returned with result
\* bytes final, the accumulator being map
homeResult(map, final) ==
    LET partialComponents == mapValues(map)
        finalLayout == IF final.kind = "layout" THEN final.comps ELSE <<>>
    IN IF final.kind = "malformed" THEN NullLayout
       ELSE IF Len(partialComponents) > 0 THEN Layout(partialComponents)
       ELSE IF Len(finalLayout) > 0 THEN Layout(finalLayout) ELSE NullLayout

\* the export returns, or throws, and getHomeImpl returns to its caller
HomeEnd ==
    /\ home.phase = "plugin"
    /\ \E threw \in BOOLEAN, final \in FinalResults :
        LET map == onPartialHomeBytes.map IN
        /\ onPartialHomeBytes' = NoCallback
        /\ partialHomeResultBytes' = IF threw THEN partialHomeResultBytes ELSE <<>>
        /\ home' = [home EXCEPT
                !.phase = "returned",
                !.acc = mapValues(map),
                !.threw = threw,
                !.final = IF threw THEN NoBytes ELSE final,
                !.result = IF threw THEN NullLayout ELSE homeResult(map, final)]
    /\ UNCHANGED homeOthers

\* a plugin with the get_home export, or without it
InitHome ==
    /\ exports \in {ModernPlugin \cup {"get_home"}, ModernPlugin}
    /\ ridCounter = 0
    /\ descriptors = EmptyMap
    /\ requests = EmptyMap
    /\ resources = EmptyMap
    /\ now = 0
    /\ contexts = {}
    /\ nextContextId = 1
    /\ scopes = EmptyMap
    /\ call = NoCall
    /\ issued = <<>>
    /\ hist = EmptyMap
    /\ cleaned = {}
    /\ lastOp = NoOp
    /\ InitExt

NextHome ==
    \/ HomeBegin
    \/ SendPartialResult
    \/ HomeEnd

SpecHome == InitHome /\ [][NextHome]_vars

\* the components of the partials emitted so far, when all are Component partials
EmittedComponents == [i \in DOMAIN home.emitted |-> home.emitted[i].comps[1]]

\* every partial emitted so far is a Component partial, and no two of them
\* have the same key (the i-th of them meets a map of size i - 1)
DistinctComponentPartials ==
    /\ \A i \in DOMAIN home.emitted : home.emitted[i].kind = "component"
    /\ \A i, j \in DOMAIN home.emitted :
          i # j => componentKey(EmittedComponents[i], i - 1)
                      # componentKey(EmittedComponents[j], j - 1)

EmptyFinalLayout == [kind |-> "layout", comps |-> <<>>]

\* C12: when the plugin emits n Component partials with distinct keys, onPartial
\* is invoked once per partial, the i-th invocation carries the first i
\* components in emission order, and with an empty final layout the returned
\* layout holds the n components in emission order.
C12_PartialsDeliveredInOrder ==
    DistinctComponentPartials =>
        /\ Len(home.delivered) = Len(home.emitted)
        /\ \A i \in DOMAIN home.delivered :
              home.delivered[i] = SubSeq(EmittedComponents, 1, i)
        /\ (home.phase = "returned" /\ ~home.threw /\ home.final = EmptyFinalLayout
              /\ Len(home.emitted) >= 1)
             => home.result = Layout(EmittedComponents)

C12_Witness ==
    /\ DistinctComponentPartials
    /\ home.phase = "returned"
    /\ ~home.threw
    /\ home.final = EmptyFinalLayout
    /\ Len(home.emitted) = 3
    /\ Len(home.delivered) = 3
    /\ home.result = Layout(EmittedComponents)

\* C13: when the home call returns, the layout is the accumulated components
\* in accumulator order if there are any, whatever the final result bytes are;
\* otherwise it is the decoded final layout, or null when that has no components.
C13_PartialsAuthoritative ==
    (home.phase = "returned" /\ ~home.threw) =>
        IF Len(home.acc) > 0
        THEN home.result = Layout(home.acc)
        ELSE home.result = IF home.final.kind = "layout" /\ Len(home.final.comps) > 0
                           THEN Layout(home.final.comps)
                           ELSE NullLayout

\* C14: after the home call has returned, by whatever path, the stored partial
\* bytes are empty and no partial callback (with its accumulator) is registered.
C14_HomeStateCleared ==
    home.phase = "returned" =>
        (partialHomeResultBytes = <<>> /\ onPartialHomeBytes = NoCallback)

\* the emitted partials the closure decodes: variant byte 0 or 1 and bytes that
\* decodeHomeLayout / decodeHomeComponent accept
DecodedPartials ==
    {i \in DOMAIN home.emitted : home.emitted[i].kind \in {"component", "layout"}}

RECURSIVE LayoutThrough(_)
\* the components accumulated from the first n emitted partials, those the
\* closure does not decode adding nothing
LayoutThrough(n) ==
    IF n = 0 THEN <<>>
    ELSE IF n \in DecodedPartials
         THEN accumulate(LayoutThrough(n - 1), home.emitted[n].comps)
         ELSE LayoutThrough(n - 1)

\* the invocations of onPartial made while emitted partial i was being handled
InvocationsDuring(i) == {k \in DOMAIN home.delivered : home.during[k] = i}

\* C30 as stated: at every point of the home call, each emitted partial that
\* the host decoded has had exactly one invocation of onPartial, made while
\* send_partial_result was handling it, with the layout accumulated up to and
\* including that partial.
C30_OnPartialOncePerPartial ==
    \A i \in DecodedPartials :
        /\ Cardinality(InvocationsDuring(i)) = 1
        /\ \A k \in InvocationsDuring(i) :
              home.delivered[k] = mapValues(LayoutThrough(i))

\* C30 amended: the same for each decoded partial up to which the accumulated
\* layout has a component; a decoded partial up to which nothing has been
\* accumulated gets no invocation.
C30_OnPartialOncePerNonEmptyLayout ==
    \A i \in DecodedPartials :
        IF Len(LayoutThrough(i)) > 0
        THEN /\ Cardinality(InvocationsDuring(i)) = 1
             /\ \A k \in InvocationsDuring(i) :
                   home.delivered[k] = mapValues(LayoutThrough(i))
        ELSE InvocationsDuring(i) = {}

\* an empty Layout partial that got no invocation, then a Layout partial and a
\* Component partial replacing a title, each with its invocation
C30_Witness ==
    /\ home.phase = "plugin"
    /\ Len(home.emitted) = 3
    /\ home.emitted[1] = [kind |-> "layout", comps |-> <<>>]
    /\ home.emitted[2].kind = "layout"
    /\ home.emitted[3] = [kind |-> "component", comps |-> <<[title |-> "B", body |-> 1]>>]
    /\ Len(home.emitted[2].comps) = 2
    /\ home.during = <<2, 3>>
    /\ Len(home.delivered[2]) = 2

RECURSIVE ComponentsThrough(_)
\* the components of the first n emitted partials that the closure decoded,
\* in emission order
ComponentsThrough(n) ==
    IF n = 0 THEN <<>>
    ELSE IF n \in DecodedPartials
         THEN ComponentsThrough(n - 1) \o home.emitted[n].comps
         ELSE ComponentsThrough(n - 1)

AllEmitted == ComponentsThrough(Len(home.emitted))

\* the accumulated layout: the values of partialComponentsMap during the call,
\* what getHomeImpl took from it once the call has returned
Accumulated ==
    IF home.phase = "plugin" THEN mapValues(onPartialHomeBytes.map) ELSE home.acc

WithTitle(comps, t) == {i \in DOMAIN comps : comps[i].title = t}

Max(S) == CHOOSE x \in S : \A y \in S : y <= x

\* C31: a title that two or more of the components emitted in this home call
\* carry is the title of exactly one component of the accumulated layout, and
\* that component is the one emitted last with the title.
C31_SameTitleKeepsLatest ==
    (home.phase = "plugin" \/ (home.phase = "returned" /\ ~home.threw)) =>
        \A t \in {c.title : c \in HomeComponents} \ {NoTitle} :
            Cardinality(WithTitle(AllEmitted, t)) >= 2 =>
                /\ Cardinality(WithTitle(Accumulated, t)) = 1
                /\ \A i \in WithTitle(Accumulated, t) :
                      Accumulated[i] = AllEmitted[Max(WithTitle(AllEmitted, t))]

\* C32: the accumulated layout has one entry for every component emitted
\* without a title in this home call, next to one entry per emitted title:
\* no untitled component has replaced a component or been replaced.
C32_UntitledKeptApart ==
    (home.phase = "plugin" \/ (home.phase = "returned" /\ ~home.threw)) =>
        /\ Cardinality(WithTitle(Accumulated, NoTitle))
              = Cardinality(WithTitle(AllEmitted, NoTitle))
        /\ Len(Accumulated)
              = Cardinality(WithTitle(AllEmitted, NoTitle))
                  + Cardinality({AllEmitted[i].title : i \in DOMAIN AllEmitted} \ {NoTitle})

----------------------------------------------------------------------------
(* net imports (createNetImports) and the cookie jar of the store.          *)
(* Strings are sequences of characters, so that the key of a cookie is      *)
(* built and split as the code builds and splits it.                        *)

\* cookie pairs in the Cookie header of one request
MaxCookiePairs == 2
\* requests made through net.init
MaxNetRequests == 1

\* RequestError
RequestError_InvalidDescriptor == -1
RequestError_InvalidBufferSize == -6
RequestError_MissingData       == -7
RequestError_MissingResponse   == -8
RequestError_MissingUrl        == -9
RequestError_RequestError      == -10

\* hostnames (new URL(url).hostname): x, its subdomain s.x, and an IPv6 literal
HostX    == <<"x">>
HostSubX == <<"s", ".", "x">>
HostV6   == <<"[", ":", ":", "1", "]">>
Hosts    == {HostX, HostSubX, HostV6}

\* req.url not set
NoUrl == <<>>

\* the first name=value token of a Set-Cookie header; no header at all
NoSetCookie == [name |-> <<>>, value |-> <<>>]
SetCookies  == {NoSetCookie, [name |-> <<"a">>, value |-> <<"1">>]}

NoResponse    == [present |-> FALSE, data |-> <<>>, statusCode |-> 0, setCookie |-> NoSetCookie,
                  bytesRead |-> 0]
\* the response net.send leaves behind when the bridge throws
EmptyResponse == [present |-> TRUE, data |-> <<>>, statusCode |-> 0, setCookie |-> NoSetCookie,
                  bytesRead |-> 0]

\* what httpBridge.request may do: return a response, return the status-0
\* object the bridges return when the transport fails or times out, or throw
BridgeResults ==
    {[kind |-> "response", status |-> 200, data |-> <<"b", "c", "d">>, setCookie |-> sc] :
        sc \in SetCookies}
    \cup {[kind |-> "failure", status |-> 0, data |-> <<>>, setCookie |-> NoSetCookie],
          [kind |-> "throws", status |-> 0, data |-> <<>>, setCookie |-> NoSetCookie]}

endsWith(str, suffix) ==
    /\ Len(suffix) <= Len(str)
    /\ SubSeq(str, Len(str) - Len(suffix) + 1, Len(str)) = suffix

\* str.indexOf(ch), counted from 1; 0 when absent
indexOf(str, ch) ==
    IF \E i \in DOMAIN str : str[i] = ch
    THEN CHOOSE i \in DOMAIN str : str[i] = ch /\ \A j \in 1..(i - 1) : str[j] # ch
    ELSE 0

\* key.split(":", 2): the first two segments
splitColon2(key) ==
    LET i    == indexOf(key, ":")
        rest == IF i = 0 THEN <<>> ELSE SubSeq(key, i + 1, Len(key))
        j    == indexOf(rest, ":")
    IN <<IF i = 0 THEN key ELSE SubSeq(key, 1, i - 1),
         IF j = 0 THEN rest ELSE SubSeq(rest, 1, j - 1)>>

\* `${domain}:${name}`
cookieKey(domain, name) == domain \o <<":">> \o name

\* this.cookies.set(key, value)
cookiesSet(jar, key, value) ==
    IF \E i \in DOMAIN jar : jar[i].key = key
    THEN [i \in DOMAIN jar |->
            IF jar[i].key = key THEN [key |-> key, value |-> value] ELSE jar[i]]
    ELSE Append(jar, [key |-> key, value |-> value])

\* storeCookiesFromHeader(domain, setCookieHeader)
storeCookiesFromHeader(jar, domain, sc) ==
    IF Len(sc.name) > 0 THEN cookiesSet(jar, cookieKey(domain, sc.name), sc.value) ELSE jar

\* storeCookiesFromResponse(url, headers)
storeCookiesFromResponse(jar, host, sc) ==
    IF sc = NoSetCookie THEN jar ELSE storeCookiesFromHeader(jar, host, sc)

\* domain === cookieDomain || domain.endsWith(`.${cookieDomain}`)
domainMatches(domain, cookieDomain) ==
    domain = cookieDomain \/ endsWith(domain, <<".">> \o cookieDomain)

RECURSIVE matchingCookies(_, _)
\* getCookiesForUrl(url): the matching `${cookieName}=${value}` pairs, in jar
\* order; <<>> stands for null
matchingCookies(jar, domain) ==
    IF jar = <<>> THEN <<>>
    ELSE LET parts == splitColon2(Head(jar).key)
             rest  == matchingCookies(Tail(jar), domain)
         IN IF domainMatches(domain, parts[1])
            THEN <<[name |-> parts[2], value |-> Head(jar).value]>> \o rest
            ELSE rest

getCookiesForUrl(jar, host) == matchingCookies(jar, host)

\* the fields of a request net.init leaves; succeeded is a ghost: some send on
\* it got a real response
NewNetReq == [url |-> NoUrl, cookie |-> <<>>, response |-> NoResponse,
              succeeded |-> FALSE]

responseAfterThrow_stale(old) == old

\* net.send, catch block: req.response = { data: empty, statusCode: 0, headers: {} }
responseAfterThrow(old) == EmptyResponse

\* net.send: the Cookie header after the stored cookies have been merged in
mergedCookie(jar, req) ==
    LET storedCookies == getCookiesForUrl(jar, req.url)
    IN IF storedCookies # <<>> THEN storedCookies \o req.cookie ELSE req.cookie

\* net.send(descriptor) reaches the bridge
sendReachesBridge(d) == d >= 0 /\ MapHas(requests, d) /\ netReqs[d].url # NoUrl

\* net.send(descriptor): the value it returns when the bridge does b
sendResult(d, b) ==
    IF d < 0 \/ ~MapHas(requests, d) THEN RequestError_InvalidDescriptor
    ELSE IF netReqs[d].url = NoUrl THEN RequestError_MissingUrl
    ELSE IF b.kind = "throws" THEN RequestError_RequestError
    ELSE 0

\* net.send(descriptor): the request it leaves when the bridge does b
sendRequest(req, b) ==
    [req EXCEPT
        !.cookie    = mergedCookie(cookies, req),
        !.response  = IF b.kind = "throws" THEN responseAfterThrow(req.response)
                      ELSE [present |-> TRUE, data |-> b.data,
                            statusCode |-> b.status, setCookie |-> b.setCookie,
                            bytesRead |-> 0],
        !.succeeded = @ \/ b.kind = "response"]

\* net.init(method)
NetInit ==
    /\ Len(issued) < MaxNetRequests
    /\ StoreStep(createRequest(Store, now), NoOp)
    /\ netReqs' = MapSet(netReqs, allocateRid(Store), NewNetReq)
    /\ lastNet' = NoSend
    /\ UNCHANGED <<now, contexts, nextContextId, scopes, exports, call, cleaned>>
    /\ UNCHANGED <<netOthers, cookies, received>>

\* net.set_url(descriptor, url) with a url that parses (host h) or does not
NetSetUrl ==
    /\ \E d \in DOMAIN requests, h \in Hosts \cup {NoUrl} :
        netReqs' = IF h = NoUrl THEN netReqs ELSE [netReqs EXCEPT ![d].url = h]
    /\ lastNet' = NoSend
    /\ UNCHANGED <<coreVars, netOthers, cookies, received>>

\* net.send(descriptor), the bridge doing b
send(d, b) ==
    IF sendReachesBridge(d)
    THEN /\ Len(mergedCookie(cookies, netReqs[d])) <= MaxCookiePairs
         /\ netReqs' = [netReqs EXCEPT ![d] = sendRequest(@, b)]
         /\ cookies' = IF b.kind = "throws" THEN cookies
                       ELSE storeCookiesFromResponse(cookies, netReqs[d].url,
                                                     b.setCookie)
         /\ received' = IF b.kind = "throws" \/ b.setCookie = NoSetCookie
                        THEN received
                        ELSE received \cup {[host |-> netReqs[d].url,
                                             sc |-> b.setCookie]}
         /\ lastNet' = [op |-> "send", rid |-> d, ret |-> sendResult(d, b),
                        bridge |-> b.kind]
    ELSE /\ lastNet' = [op |-> "send", rid |-> d, ret |-> sendResult(d, b),
                        bridge |-> "none"]
         /\ UNCHANGED <<netReqs, cookies, received>>

\* net.send(descriptor)
NetSend ==
    /\ \E d \in {-1} \cup RidArgs, b \in BridgeResults : send(d, b)
    /\ UNCHANGED <<coreVars, netOthers>>

\* net.data_len(descriptor)
data_len(d) ==
    IF d < 0 \/ ~MapHas(requests, d) THEN RequestError_InvalidDescriptor
    ELSE IF ~netReqs[d].response.present THEN RequestError_MissingResponse
    ELSE Len(netReqs[d].response.data)

\* net.read_data(descriptor, buffer, size)
read_data(d, size) ==
    IF d < 0 \/ ~MapHas(requests, d) THEN RequestError_InvalidDescriptor
    ELSE IF ~netReqs[d].response.present THEN RequestError_MissingResponse
    ELSE IF size > Len(netReqs[d].response.data) THEN RequestError_InvalidBufferSize
    ELSE 0

\* net.get_status_code(descriptor)
get_status_code(d) ==
    IF d < 0 \/ ~MapHas(requests, d) THEN RequestError_InvalidDescriptor
    ELSE IF ~netReqs[d].response.present THEN RequestError_MissingResponse
    ELSE netReqs[d].response.statusCode

\* net.get_header(descriptor, "set-cookie"): an error code, or the rid of the
\* string it stores
get_header(d) ==
    IF d < 0 \/ ~MapHas(requests, d) THEN RequestError_InvalidDescriptor
    ELSE IF ~netReqs[d].response.present THEN RequestError_MissingResponse
    ELSE IF netReqs[d].response.setCookie = NoSetCookie THEN RequestError_MissingData
    ELSE allocateRid(Store)

\* legacy net.get_data_size(descriptor): data.length - bytesRead
get_data_size(d) ==
    IF d < 0 THEN RequestError_InvalidDescriptor
    ELSE IF ~MapHas(requests, d) \/ ~netReqs[d].response.present
    THEN RequestError_MissingData
    ELSE Len(netReqs[d].response.data) - netReqs[d].response.bytesRead

\* data.slice(start, end): both ends clamped to the length
slice(data, start, end) ==
    SubSeq(data, start + 1, IF end > Len(data) THEN Len(data) ELSE end)

pastEnd_fromStart(bytesRead, size, length) == size > length

\* if (bytesRead + size > data.length) return
pastEnd(bytesRead, size, length) == bytesRead + size > length

\* legacy net.get_data(descriptor, buffer, size): the bytes it copies out,
\* data.slice(bytesRead, bytesRead + size)
get_data(d, size) ==
    IF d < 0 \/ size <= 0 THEN <<>>
    ELSE IF ~MapHas(requests, d) \/ ~netReqs[d].response.present THEN <<>>
    ELSE LET data      == netReqs[d].response.data
             bytesRead == netReqs[d].response.bytesRead
         IN IF pastEnd(bytesRead, size, Len(data)) THEN <<>>
            ELSE slice(data, bytesRead, bytesRead + size)

NextNet ==
    \/ NetInit
    \/ NetSetUrl
    \/ NetSend

SpecNet == Init /\ [][NextNet]_vars

\* the bridge failed: it threw, or it returned its status-0 failure object
BridgeFailed == lastNet.op = "send" /\ lastNet.bridge \in {"failure", "throws"}

\* C15: when the bridge fails, by throwing or by reporting a transport failure
\* or timeout, net.send returns RequestError and not 0.
C15_SendReportsBridgeFailure ==
    BridgeFailed => lastNet.ret = RequestError_RequestError

\* C16: after a send whose bridge call failed, every inspection of the request
\* sees an empty response: no body, status 0, no header.
C16_FailedSendLeavesEmptyResponse ==
    BridgeFailed =>
        /\ data_len(lastNet.rid) = 0
        /\ read_data(lastNet.rid, 1) = RequestError_InvalidBufferSize
        /\ get_status_code(lastNet.rid) = 0
        /\ get_header(lastNet.rid) = RequestError_MissingData
        /\ get_data_size(lastNet.rid) = 0
        /\ get_data(lastNet.rid, 1) = <<>>

C16_Witness ==
    /\ BridgeFailed
    /\ lastNet.bridge = "throws"
    /\ netReqs[lastNet.rid].succeeded
    /\ data_len(lastNet.rid) = 0

\* host h is H or a subdomain of H
SubdomainOrSelf(h, H) == h = H \/ endsWith(h, <<".">> \o H)

\* the step is a net.send that hands a request to the bridge
SendStep == lastNet'.op = "send" /\ lastNet'.bridge # "none"

\* C17: once a response to a request for host H has carried set-cookie n=v,
\* every later send to H or to a subdomain of H hands the bridge a Cookie
\* header that contains n=v.
C17_StoredCookieSent ==
    [][SendStep =>
         \A c \in received :
            SubdomainOrSelf(netReqs[lastNet'.rid].url, c.host)
               => \E i \in DOMAIN netReqs'[lastNet'.rid].cookie :
                     netReqs'[lastNet'.rid].cookie[i] = c.sc]_vars

\* C18: every cookie in the Cookie header handed to the bridge was stored from
\* a response for the request's host or for a parent domain of it.
C18_CookieOnlyToOwnDomain ==
    [][SendStep =>
         \A i \in DOMAIN netReqs'[lastNet'.rid].cookie :
            \E c \in received :
               /\ c.sc = netReqs'[lastNet'.rid].cookie[i]
               /\ SubdomainOrSelf(netReqs[lastNet'.rid].url, c.host)]_vars


----------------------------------------------------------------------------
(* env.abort during a host-driven entry point *)

\* store.id
SourceId == "source-id"

\* the AssemblyScript strings abort is called with: the characters at the
\* pointer; the empty string is the one whose length read gives 0
AbortStrings == {<<>>, <<"m">>}

\* readAsStringLength(ptr): the length stored before the string (0 on failure)
readAsStringLength(str) == Len(str)

\* env.abort(msgPtr, filePtr, line, col): the Error it constructs and throws,
\* `[${store.id}] Abort: ${msg} at ${file}:${line}:${col}`
abortError(msg, file, line, col) ==
    [source |-> SourceId,
     msg    |-> IF readAsStringLength(msg) > 0 THEN msg
                ELSE <<"U","n","k","n","o","w","n"," ","e","r","r","o","r">>,
     file   |-> IF readAsStringLength(file) > 0 THEN file
                ELSE <<"U","n","k","n","o","w","n"," ","f","i","l","e">>,
     line   |-> line,
     col    |-> col]

\* the plugin calls env.abort inside the export: the Error unwinds the export
\* into the entry point's try block, whose catch logs it and returns the
\* fallback, and whose finally block cleans the scope
EnvAbort ==
    /\ call.phase = "plugin"
    /\ \E msg \in AbortStrings, file \in AbortStrings, line \in {1}, col \in {2} :
        caller' = returnToCaller("threw", abortError(msg, file, line, col))
    /\ StoreStep(FinallyCleanup(AfterExport(Store, call, "threw", 0), call, scopes),
                 NoOp)
    /\ call' = [call EXCEPT !.phase = "returned", !.outcome = "threw"]
    /\ scopes' = IF call.scope = 0 THEN scopes ELSE MapDelete(scopes, call.scope)
    /\ UNCHANGED <<now, contexts, nextContextId, exports, cleaned>>
    /\ UNCHANGED callOthers

NextAbort ==
    \/ BeginCall
    \/ PluginStoreValue
    \/ PluginNetInit
    \/ PluginDestroy
    \/ PluginNetClose
    \/ EnvAbort
    \/ EndCall

SpecAbort == InitHost /\ [][NextAbort]_vars

\* C20: when the plugin has called env.abort during a host-driven entry point,
\* the entry point throws to its caller the error env.abort constructed,
\* "[source-id] Abort: <msg> at <file>:<line>:<col>".
C20_AbortThrowsToCaller ==
    (call.phase = "returned" /\ caller.abort # NoError)
        => (caller.kind = "throw" /\ caller.error = caller.abort)


----------------------------------------------------------------------------
(* The SharedArrayBuffer http bridge: the worker's request() and the main
   thread's message handler *)

MaxBridgeRequests == 2

\* how the main thread's fetch for one message ends: a response that fits the
\* buffer, one that does not, or a rejected fetch
FetchOutcomes ==
    { [kind |-> "ok", status |-> 200, bodyLength |-> 1],
      [kind |-> "ok", status |-> 404, bodyLength |-> 0],
      [kind |-> "tooLarge", status |-> 200, bodyLength |-> 1],
      [kind |-> "failed", status |-> 0, bodyLength |-> 0] }

\* the handler's stores once its fetch has ended, for message id: the status
\* and length cells, the body and headers bytes, then control = 1
handlerWrite(s, id, o) ==
    IF o.kind = "ok"
    THEN [control |-> 1, status |-> o.status, bodyLength |-> o.bodyLength,
          headersLength |-> 1, data |-> id]
    ELSE [s EXCEPT !.control = 1,
                   !.status = IF o.kind = "tooLarge" THEN 500 ELSE 0,
                   !.bodyLength = 0, !.headersLength = 0]

\* request(): what the worker returns from the cells it loads after waking
readResponse(s) ==
    IF s.status = 0 /\ s.bodyLength = 0
    THEN FailedResponse
    ELSE [status  |-> s.status,
          headers |-> IF s.headersLength > 0 THEN s.data ELSE 0,
          body    |-> IF s.bodyLength > 0 THEN s.data ELSE 0]

\* request(req): id = ++requestId, control = 0, postMessage; the main thread's
\* handler for the message starts its fetch; the worker enters Atomics.wait
BridgeRequest ==
    /\ worker.phase \in {"idle", "returned"}
    /\ worker.requestId < MaxBridgeRequests
    /\ sab' = [sab EXCEPT !.control = 0]
    /\ handlers' = Append(handlers, "fetching")
    /\ worker' = [NoRequest EXCEPT !.phase = "waiting",
                                   !.requestId = worker.requestId + 1]
    /\ UNCHANGED bridgeOthers

\* the handler of message id resumes after its awaits: it writes the response
\* (or the error response from its catch block), sets control and notifies
HandlerDone ==
    /\ \E id \in DOMAIN handlers, o \in FetchOutcomes :
        /\ handlers[id] = "fetching"
        /\ sab' = handlerWrite(sab, id, o)
        /\ handlers' = [handlers EXCEPT ![id] = o.kind]
    /\ UNCHANGED worker
    /\ UNCHANGED bridgeOthers

\* Atomics.wait(control, 0, 0, 60000) returns "timed-out": no store to control
\* came within the timeout; request() returns the status-0 response
WaitTimedOut ==
    /\ worker.phase = "waiting"
    /\ sab.control = 0
    /\ worker' = [worker EXCEPT !.phase = "returned", !.wait = "timed-out",
                                !.response = FailedResponse,
                                !.ownFailed = handlers[worker.requestId] = "failed"]
    /\ UNCHANGED <<sab, handlers>>
    /\ UNCHANGED bridgeOthers

\* Atomics.wait returns "ok" or "not-equal": control is no longer 0
WaitWoken ==
    /\ worker.phase = "waiting"
    /\ sab.control # 0
    /\ worker' = [worker EXCEPT !.phase = "awake", !.wait = "ok"]
    /\ UNCHANGED <<sab, handlers>>
    /\ UNCHANGED bridgeOthers

\* the worker loads the status and length cells, copies the bytes and returns
ReadResponse ==
    /\ worker.phase = "awake"
    /\ worker' = [worker EXCEPT !.phase = "returned",
                                !.response = readResponse(sab),
                                !.ownFailed = handlers[worker.requestId] = "failed"]
    /\ UNCHANGED <<sab, handlers>>
    /\ UNCHANGED bridgeOthers

NextBridge ==
    \/ BridgeRequest
    \/ HandlerDone
    \/ WaitTimedOut
    \/ WaitWoken
    \/ ReadResponse

SpecBridge == Init /\ [][NextBridge]_vars

\* C19: a call of the bridge's request that has returned after its wait timed
\* out, or after the main thread's handling of it failed, has returned a
\* status-0 response.
C19_FailureGivesStatus0 ==
    (worker.phase = "returned" /\ (worker.wait = "timed-out" \/ worker.ownFailed))
        => worker.response.status = 0


----------------------------------------------------------------------------
(* Decoding the plugin's result bytes: getListings *)

MaxPayloadLen == 4

\* the byte values of the payloads considered (each a one-byte varint)
Bytes == 0..2

\* the byte sequences of length at most n
SeqsUpTo(n) == UNION { [1..k -> Bytes] : k \in 0..n }

\* what readResult hands the entry point: null, or the payload bytes
ResultBytes == { [null |-> TRUE, bytes |-> <<>>] }
               \cup { [null |-> FALSE, bytes |-> b] : b \in SeqsUpTo(MaxPayloadLen) }

\* bytes[pos] past the end of a Uint8Array: undefined
UndefinedByte == -1

\* a decoder that threw
DecodeError == [ok |-> FALSE, value |-> <<>>, pos |-> 0]
Decoded(v, pos) == [ok |-> TRUE, value |-> v, pos |-> pos]

\* decodeVarint(bytes, offset): [value, newOffset], or throws at the end of input
decodeVarint(bytes, offset) ==
    IF offset >= Len(bytes) THEN DecodeError
    ELSE Decoded(bytes[offset + 1], offset + 1)

\* decodeString(bytes, offset): the length, then that many bytes; throws when
\* the input ends before them
decodeString(bytes, offset) ==
    LET n == decodeVarint(bytes, offset) IN
    IF ~n.ok THEN DecodeError
    ELSE IF n.pos + n.value > Len(bytes) THEN DecodeError
    ELSE Decoded(SubSeq(bytes, n.pos + 1, n.pos + n.value), n.pos + n.value)

\* decodeListingForVec(bytes, offset): id, name, then kind = bytes[pos]
decodeListingForVec(bytes, offset) ==
    LET id == decodeString(bytes, offset) IN
    IF ~id.ok THEN DecodeError
    ELSE LET name == decodeString(bytes, id.pos) IN
         IF ~name.ok THEN DecodeError
         ELSE Decoded([id |-> id.value, name |-> name.value,
                       kind |-> IF name.pos < Len(bytes) THEN bytes[name.pos + 1]
                                ELSE UndefinedByte],
                      name.pos + 1)

RECURSIVE decodeItems(_, _, _, _)
\* decodeVec: the loop over len items, pushing each decoded item
decodeItems(bytes, pos, len, items) ==
    IF len = 0 THEN Decoded(items, pos)
    ELSE LET item == decodeListingForVec(bytes, pos) IN
         IF ~item.ok THEN DecodeError
         ELSE decodeItems(bytes, item.pos, len - 1, Append(items, item.value))

\* decodeVec(bytes, offset, decodeListingForVec)
decodeVec(bytes, offset) ==
    LET len == decodeVarint(bytes, offset) IN
    IF ~len.ok THEN DecodeError ELSE decodeItems(bytes, len.pos, len.value, <<>>)

\* getListings(), once the export has returned: [] for no result bytes, the
\* decoded listings, or [] from the catch block when the decoder threw
getListings(resultBytes) ==
    IF resultBytes.null THEN [kind |-> "empty", value |-> <<>>]
    ELSE LET d == decodeVec(resultBytes.bytes, 0) IN
         IF d.ok THEN [kind |-> "decoded", value |-> d.value]
         ELSE [kind |-> "caught", value |-> <<>>]

\* the host calls getListings() and the export returns result bytes
GetListings ==
    /\ \E r \in ResultBytes :
        calc' = [op |-> "getListings", in |-> r, out |-> getListings(r)]
    /\ UNCHANGED calcOthers

NextListings == GetListings

SpecListings == Init /\ [][NextListings]_vars

\* encodeString(str): the length, then the bytes
encodeString(str) == <<Len(str)>> \o str

\* encodeListing(listing): id, name, kind ?? 0
encodeListing(l) ==
    encodeString(l.id) \o encodeString(l.name)
        \o <<IF l.kind = UndefinedByte THEN 0 ELSE l.kind>>

RECURSIVE encodeListings(_)
encodeListings(ls) ==
    IF ls = <<>> THEN <<>> ELSE encodeListing(Head(ls)) \o encodeListings(Tail(ls))

\* bytes is the postcard encoding of a Vec<Listing>
WellFormedListings(bytes) ==
    LET d == decodeVec(bytes, 0) IN
    /\ d.ok
    /\ \A i \in 1..Len(d.value) : d.value[i].kind \in {0, 1}
    /\ <<Len(d.value)>> \o encodeListings(d.value) = bytes

\* bytes is a well-formed payload cut short
Truncated(bytes) ==
    /\ ~WellFormedListings(bytes)
    /\ \E k \in Bytes : WellFormedListings(Append(bytes, k))

\* C21: when the result bytes are a truncated payload, getListings returns its
\* empty value, the empty list.
C21_TruncatedResultGivesEmpty ==
    (calc.op = "getListings" /\ ~calc.in.null /\ Truncated(calc.in.bytes))
        => calc.out.value = <<>>


----------------------------------------------------------------------------
(* detectRuntimeMode over the sets of exports *)

\* the export names a plugin of either ABI may have
ExportNames == {"get_search_manga_list", "get_manga_update", "get_manga_details",
                "get_chapter_list", "get_manga_list", "get_page_list", "get_home"}

\* createLoadSource: mode = detectRuntimeMode(instance.exports)
DetectRuntimeMode ==
    /\ \E ex \in SUBSET ExportNames :
        calc' = [op |-> "detectRuntimeMode", in |-> ex, out |-> detectRuntimeMode(ex)]
    /\ UNCHANGED calcOthers

NextMode == DetectRuntimeMode

SpecMode == Init /\ [][NextMode]_vars

HasModernExport(ex) == {"get_search_manga_list", "get_manga_update"} \cap ex # {}
HasLegacyExport(ex) == {"get_manga_details", "get_chapter_list"} \cap ex # {}

\* C22: the mode is modern when a modern export is present (legacy exports or
\* not), otherwise legacy when a legacy export is present, otherwise modern.
C22_ModeFromExports ==
    calc.op = "detectRuntimeMode" =>
        /\ HasModernExport(calc.in) => calc.out = "aidoku-rs"
        /\ (~HasModernExport(calc.in) /\ HasLegacyExport(calc.in)) => calc.out = "legacy"
        /\ (~HasModernExport(calc.in) /\ ~HasLegacyExport(calc.in))
               => calc.out = "aidoku-rs"

\* a plugin with exports of both ABIs has been classified
C22_Witness ==
    /\ calc.op = "detectRuntimeMode"
    /\ HasModernExport(calc.in)
    /\ HasLegacyExport(calc.in)
    /\ calc.out = "aidoku-rs"

\* the plugin exports get_manga_list and neither of the modern exports
MangaListWithoutModern(ex) == "get_manga_list" \in ex /\ ~HasModernExport(ex)

----------------------------------------------------------------------------
(* Reading a result from the plugin's memory: readResultPayload, readResult *)

\* the size of the plugin's linear memory, in bytes
MemSize == 16
\* the largest payload a result is written with
MaxPayload == 3

\* the i32 n as four little-endian bytes (two's complement)
toLE(n) ==
    << n % 256, (n \div 256) % 256, (n \div 65536) % 256, (n \div 16777216) % 256 >>

\* DataView.getInt32(ptr, true)
getInt32(mem, ptr) ==
    LET top == IF mem[ptr + 4] >= 128 THEN mem[ptr + 4] - 256 ELSE mem[ptr + 4]
    IN mem[ptr + 1] + 256 * mem[ptr + 2] + 65536 * mem[ptr + 3] + 16777216 * top

\* the length words a plugin may leave at a result pointer
LengthWords == {-1, 0, 7, 8, 300} \cup { 8 + k : k \in 1..MaxPayload + 1 }

\* memory in which the plugin wrote [len][cap][payload...] at address base, the
\* payload bytes being fill, fill + 1, ...; what falls past the end is not written
WrittenMemory(base, len, fill) ==
    LET hdr == toLE(len) \o toLE(len) IN
    [ i \in 1..MemSize |->
        LET a == i - 1 IN
        IF a < base THEN 0
        ELSE IF a < base + 8 THEN hdr[a - base + 1]
        ELSE fill + (a - base - 8) ]

\* where the plugin may have written a result
Bases == {1, 4, MemSize - 8 - MaxPayload}
\* the pointers an export may return
Pointers == {-1, 0, 1, 4, MemSize - 8 - MaxPayload, MemSize - 2}

\* readResult(ptr) = null
NoPayload == [null |-> TRUE, bytes |-> <<>>]
Payload(b) == [null |-> FALSE, bytes |-> b]

payloadStart_noCap(ptr) == ptr + 4

\* the payload starts after the 8-byte header (len + capacity)
payloadStart(ptr) == ptr + 8

\* readResultPayload(memory, ptr); the RangeErrors of DataView.getInt32 and of
\* the Uint8Array constructor are caught and give null
readResultPayload(mem, ptr) ==
    IF ptr <= 0 THEN NoPayload
    ELSE IF ptr + 4 > Len(mem) THEN NoPayload
    ELSE LET len == getInt32(mem, ptr)
             payloadLen == len - 8
             start == payloadStart(ptr)
         IN IF len <= 8 THEN NoPayload
            ELSE IF start + payloadLen > Len(mem) THEN NoPayload
            ELSE Payload(SubSeq(mem, start + 1, start + payloadLen))

\* createLoadSource's readResult(ptr): the same steps on the instance's memory
readResult(mem, ptr) == readResultPayload(mem, ptr)

\* an export has returned ptr; the entry point reads the result
ReadResult ==
    /\ \E base \in Bases, len \in LengthWords, fill \in {1, 5}, ptr \in Pointers,
          fn \in {"readResultPayload", "readResult"} :
        LET mem == WrittenMemory(base, len, fill) IN
        calc' = [op |-> "read", fn |-> fn, mem0 |-> mem, mem |-> mem, ptr |-> ptr,
                 out |-> IF fn = "readResult" THEN readResult(mem, ptr)
                         ELSE readResultPayload(mem, ptr)]
    /\ UNCHANGED calcOthers

\* free_result(ptr): the plugin releases the result, whose memory is reused
FreeResult ==
    /\ calc.op = "read"
    /\ calc.ptr > 0
    /\ calc' = [calc EXCEPT !.op = "freed", !.mem = [i \in 1..MemSize |-> 0]]
    /\ UNCHANGED calcOthers

NextRead ==
    \/ ReadResult
    \/ FreeResult

SpecRead == Init /\ [][NextRead]_vars

\* the length word at the pointer can be read
LengthReadable(c) == c.ptr > 0 /\ c.ptr + 4 <= MemSize
\* the length word L at the pointer
LengthAt(c) == getInt32(c.mem0, c.ptr)
\* the L - 8 bytes at p + 8 lie within memory
PayloadInMemory(c) == c.ptr + LengthAt(c) <= MemSize

\* C23 as stated: p <= 0 or L <= 8 gives no payload, and L > 8 gives the L - 8
\* bytes starting at p + 8.
C23_PayloadForEveryLength ==
    calc.op \in {"read", "freed"} =>
        /\ calc.ptr <= 0 => calc.out.null
        /\ (LengthReadable(calc) /\ LengthAt(calc) <= 8) => calc.out.null
        /\ (LengthReadable(calc) /\ LengthAt(calc) > 8) =>
               /\ ~calc.out.null
               /\ Len(calc.out.bytes) = LengthAt(calc) - 8

\* C23, amended: no payload when p <= 0, when the length word cannot be read or
\* is <= 8, or when the L - 8 bytes at p + 8 run past the end of memory;
\* otherwise the payload is exactly those L - 8 bytes as they were when read,
\* whatever is written to memory afterwards.
C23_PayloadWithinMemory ==
    calc.op \in {"read", "freed"} =>
        IF LengthReadable(calc) /\ LengthAt(calc) > 8 /\ PayloadInMemory(calc)
        THEN /\ ~calc.out.null
             /\ Len(calc.out.bytes) = LengthAt(calc) - 8
             /\ \A i \in 1..Len(calc.out.bytes) :
                    calc.out.bytes[i] = calc.mem0[calc.ptr + 8 + i]
        ELSE calc.out.null

\* a payload of more than one byte has been read and its memory then reused
C23_Witness ==
    /\ calc.op = "freed"
    /\ ~calc.out.null
    /\ Len(calc.out.bytes) > 1
    /\ calc.mem # calc.mem0


----------------------------------------------------------------------------
(* The method of a request created with a method index *)

MaxMethodIndex == 10

\* the method indexes net.init may be called with
MethodIndexes == -1..MaxMethodIndex

\* createRequest: the method table, in aidoku-rs HttpMethod order
HttpMethods == <<"GET", "POST", "PUT", "HEAD", "DELETE", "PATCH", "OPTIONS",
                 "CONNECT", "TRACE">>

methodStr_oneBased(method) ==
    IF method \in 1..Len(HttpMethods) THEN HttpMethods[method] ELSE "GET"

\* createRequest: methodStr = [...][method] || "GET"
methodStr(method) ==
    IF method \in 0..(Len(HttpMethods) - 1) THEN HttpMethods[method + 1] ELSE "GET"

\* net.init(method): store.createRequest(method); calc holds the new request's
\* rid and method
CreateRequestWithMethod ==
    /\ Len(issued) < MaxInserts
    /\ \E method \in MethodIndexes :
        calc' = [op |-> "createRequest", in |-> method, rid |-> allocateRid(Store),
                 out |-> methodStr(method)]
    /\ StoreStep(createRequest(Store, now), NoOp)
    /\ UNCHANGED <<now, contexts, nextContextId, scopes, exports, call, cleaned>>
    /\ UNCHANGED <<homeVars, netVars, bridgeVars, abortVars, instVars, raceVars>>

NextMethod ==
    \/ CreateRequestWithMethod
    \/ RemoveRequest
    \/ Tick

SpecMethod == Init /\ [][NextMethod]_vars

\* C24: index 0..8 gives GET, POST, PUT, HEAD, DELETE, PATCH, OPTIONS, CONNECT,
\* TRACE respectively, and any other index gives GET.
C24_MethodOfIndex ==
    calc.op = "createRequest" =>
        calc.out = CASE calc.in = 0 -> "GET"
                     [] calc.in = 1 -> "POST"
                     [] calc.in = 2 -> "PUT"
                     [] calc.in = 3 -> "HEAD"
                     [] calc.in = 4 -> "DELETE"
                     [] calc.in = 5 -> "PATCH"
                     [] calc.in = 6 -> "OPTIONS"
                     [] calc.in = 7 -> "CONNECT"
                     [] calc.in = 8 -> "TRACE"
                     [] OTHER -> "GET"

\* a request has been created with the last index of the table
C24_Witness ==
    /\ calc.op = "createRequest"
    /\ calc.in = 8
    /\ calc.out = "TRACE"
    /\ getRequest(Store, calc.rid)


----------------------------------------------------------------------------
(* Zigzag varints of 32-bit integers: encodeI32 and decodeZigzagVarint.
   A 32-bit word is the function from bit position 0..31 to its bit. *)

\* the integers -MaxSmallInt..MaxSmallInt are all encoded and decoded
MaxSmallInt == 40

Pow2(k) == IF k = 0 THEN 1 ELSE 2 ^ k

INT32_MAX == 2147483647
INT32_MIN == -2147483647 - 1

\* the integers encoded: the small ones, those around each change of the
\* encoding's length, and the ends of the 32-bit range
I32Inputs ==
    (-MaxSmallInt..MaxSmallInt)
    \cup { 100, -100, 8191, 8192, -8192, -8193, 1048575, 1048576, -1048576, -1048577,
           134217727, 134217728, -134217728, -134217729,
           INT32_MAX - 1, INT32_MAX, INT32_MIN + 1, INT32_MIN }

\* ToInt32: the two's complement word of the integer n
wordOf(n) ==
    LET m == IF n < 0 THEN (n + INT32_MAX) + 1 ELSE n IN
    [ i \in 0..31 |-> IF i = 31 THEN (IF n < 0 THEN 1 ELSE 0)
                      ELSE (m \div Pow2(i)) % 2 ]

RECURSIVE lowBitsValue(_, _)
\* the number whose binary digits are bits 0..k of w
lowBitsValue(w, k) ==
    IF k < 0 THEN 0 ELSE w[k] * Pow2(k) + lowBitsValue(w, k - 1)

\* the signed integer a word stands for
intOf(w) ==
    IF w[31] = 0 THEN lowBitsValue(w, 30)
    ELSE (lowBitsValue(w, 30) - INT32_MAX) - 1

\* val << k, val >>> k, a ^ b on words (a shift count is taken modulo 32)
shl(w, k)  == [ i \in 0..31 |-> IF i - (k % 32) >= 0 THEN w[i - (k % 32)] ELSE 0 ]
ushr(w, k) == [ i \in 0..31 |-> IF i + (k % 32) <= 31 THEN w[i + (k % 32)] ELSE 0 ]
xor(a, b)  == [ i \in 0..31 |-> (a[i] + b[i]) % 2 ]
or(a, b)   == [ i \in 0..31 |-> IF a[i] + b[i] > 0 THEN 1 ELSE 0 ]

signSpread_logical(w) == ushr(w, 31)

\* val >> 31: every bit is the sign bit
signSpread(w) == [ i \in 0..31 |-> w[31] ]

\* val & 0x7f, as a number
low7(w) == lowBitsValue(w, 6)

\* val >= 0x80 for the unsigned word val
atLeast0x80(w) == \E i \in 7..31 : w[i] = 1

RECURSIVE encodeVarint(_)
\* encodeVarint(val): (val & 0x7f) | 0x80 while val >= 0x80, then val
encodeVarint(w) ==
    IF atLeast0x80(w) THEN <<low7(w) + 128>> \o encodeVarint(ushr(w, 7))
    ELSE <<low7(w)>>

\* encodeI32(val): zigzag = (val << 1) ^ (val >> 31); encodeVarint(zigzag >>> 0)
encodeI32(n) ==
    LET val == wordOf(n) IN encodeVarint(xor(shl(val, 1), signSpread(val)))

RECURSIVE zigzagLoop(_, _, _, _)
\* decodeZigzagVarint: the loop; <<result, pos>>
zigzagLoop(bytes, pos, shift, result) ==
    IF pos >= Len(bytes) THEN <<result, pos>>
    ELSE LET byte == bytes[pos + 1]
             r == or(result, shl(wordOf(byte % 128), shift))
         IN IF byte < 128 THEN <<r, pos + 1>>
            ELSE zigzagLoop(bytes, pos + 1, shift + 7, r)

\* decodeZigzagVarint(bytes, offset): [decoded, bytesRead], with
\* decoded = (result >>> 1) ^ -(result & 1)
decodeZigzagVarint(bytes, offset) ==
    LET l == zigzagLoop(bytes, offset, 0, wordOf(0))
        result == l[1]
        decoded == xor(ushr(result, 1), wordOf(0 - result[0]))
    IN <<intOf(decoded), l[2] - offset>>

\* an i32 is encoded and the encoding decoded, alone or after skipped bytes
EncodeDecodeI32 ==
    /\ \E n \in I32Inputs, prefix \in {<<>>, <<255, 255>>} :
        LET enc == encodeI32(n) IN
        calc' = [op |-> "zigzag", in |-> n, enc |-> enc, offset |-> Len(prefix),
                 out |-> decodeZigzagVarint(prefix \o enc, Len(prefix))]
    /\ UNCHANGED calcOthers

NextZigzag == EncodeDecodeI32

SpecZigzag == Init /\ [][NextZigzag]_vars

RECURSIVE leb128Value(_)
\* the number a LEB128 byte sequence stands for (when it is below 2^31)
leb128Value(bytes) ==
    IF bytes = <<>> THEN 0 ELSE (Head(bytes) % 128) + 128 * leb128Value(Tail(bytes))

\* C25: the encoding of n is the LEB128 encoding of its zigzag value, 2n for
\* n >= 0 and -2n - 1 for n < 0 (so 0, 1, -1, 100, -100 give 00, 02, 01, c8 01,
\* c7 01), and decoding it returns n and the number of bytes of the encoding.
C25_ZigzagRoundTrip ==
    calc.op = "zigzag" =>
        /\ calc.out = <<calc.in, Len(calc.enc)>>
        /\ \A i \in 1..Len(calc.enc) :
               (calc.enc[i] >= 128) <=> (i < Len(calc.enc))
        /\ (calc.in >= 0 /\ calc.in < 1073741824)
               => leb128Value(calc.enc) = 2 * calc.in
        /\ (calc.in < 0 /\ calc.in > -1073741824)
               => leb128Value(calc.enc) = -2 * calc.in - 1
        /\ calc.in = 0 => calc.enc = <<0>>
        /\ calc.in = 1 => calc.enc = <<2>>
        /\ calc.in = -1 => calc.enc = <<1>>
        /\ calc.in = 100 => calc.enc = <<200, 1>>
        /\ calc.in = -100 => calc.enc = <<199, 1>>

\* the most negative 32-bit integer has been encoded in five bytes and decoded
C25_Witness ==
    /\ calc.op = "zigzag"
    /\ calc.in = INT32_MIN
    /\ Len(calc.enc) = 5
    /\ calc.out[1] = INT32_MIN


----------------------------------------------------------------------------
(* The worker's event loop: Comlink calls on one plugin instance *)

\* calls the main thread may have posted and the worker not yet taken
MaxQueued == 3
\* processPageImage calls awaiting their image at one time
MaxAwaiting == 2

\* the WorkerSource methods called (two synchronous ones and the async one)
WorkerCalls == {"getSearchMangaList", "getPageList", "processPageImage"}

\* the async wrapper on the main thread: workerSource.<method>(...) posts the
\* call to the worker; nothing waits for the calls made before it
PostCall ==
    /\ Len(instance.inbox) < MaxQueued
    /\ \E ep \in WorkerCalls :
        instance' = [instance EXCEPT !.inbox = Append(@, ep)]
    /\ UNCHANGED instOthers

\* the worker's event loop takes the next call: a synchronous entry point runs
\* to its return within the task; processPageImage runs up to
\* "await createHostImage(...)" and leaves the task with the call begun
DispatchCall ==
    /\ instance.inbox # <<>>
    /\ Head(instance.inbox) = "processPageImage" => Len(instance.active) < MaxAwaiting
    /\ LET ep == Head(instance.inbox) IN
        instance' = [inbox  |-> Tail(instance.inbox),
                     active |-> IF ep = "processPageImage"
                                THEN Append(instance.active, ep) ELSE instance.active,
                     last   |-> [ep |-> ep, others |-> instance.active]]
    /\ UNCHANGED instOthers

\* createHostImage settles: a processPageImage continues after its await, calls
\* the export and returns
ResumeProcessPageImage ==
    /\ \E i \in 1..Len(instance.active) :
        instance' = [instance EXCEPT
                        !.active = SubSeq(@, 1, i - 1) \o SubSeq(@, i + 1, Len(@))]
    /\ UNCHANGED instOthers

NextInstance ==
    \/ PostCall
    \/ DispatchCall
    \/ ResumeProcessPageImage

SpecInstance == Init /\ [][NextInstance]_vars

\* C26: no entry point begins on the instance while another entry point begun
\* on it has not yet completed.
C26_OneCallInFlight ==
    instance.last.ep # "none" => instance.last.others = <<>>


\* C27: a response with headers that request() has returned was produced by the
\* main thread for that same request.
C27_ResponseOfSameRequest ==
    (worker.phase = "returned" /\ worker.response.headers # 0)
        => worker.response.headers = worker.requestId

----------------------------------------------------------------------------
(* The shared buffer, store by store: the handler's stores and its signal, the
   worker's loads of the cells and its copy of the data *)

\* the handler of message id has written its stores and set control
Completed(id) == id \in DOMAIN handlers /\ handlers[id] # "fetching"

\* the handler of message id resumes after its awaits and stores the status
\* and length cells and the body and headers bytes
HandlerStores ==
    /\ \E id \in DOMAIN handlers, o \in FetchOutcomes :
        /\ handlers[id] = "fetching"
        /\ \A w \in cells.writing : w.id # id
        /\ sab' = [handlerWrite(sab, id, o) EXCEPT !.control = sab.control]
        /\ cells' = [cells EXCEPT !.cellsBy = id,
                                  !.dataBy = IF o.kind = "ok" THEN id ELSE @,
                                  !.writing = @ \cup {[id |-> id, kind |-> o.kind]}]
    /\ UNCHANGED <<worker, handlers>>
    /\ UNCHANGED <<coreVars, homeVars, netVars, abortVars, calcVars, instVars>>

\* the handler's last two statements: control = 1 and Atomics.notify
HandlerSignals ==
    /\ \E w \in cells.writing :
        /\ sab' = [sab EXCEPT !.control = 1]
        /\ handlers' = [handlers EXCEPT ![w.id] = w.kind]
        /\ cells' = [cells EXCEPT !.writing = @ \ {w}]
    /\ UNCHANGED worker
    /\ UNCHANGED <<coreVars, homeVars, netVars, abortVars, calcVars, instVars>>

\* the woken worker loads the status and the two length cells; a status of 0
\* with no body makes it return the status-0 response at once
LoadCells ==
    /\ worker.phase = "awake"
    /\ worker' = IF sab.status = 0 /\ sab.bodyLength = 0
                 THEN [worker EXCEPT !.phase = "returned",
                                     !.response = FailedResponse,
                                     !.ownFailed = handlers[worker.requestId] = "failed"]
                 ELSE [worker EXCEPT !.phase = "loaded",
                                     !.response = [status  |-> sab.status,
                                                   headers |-> sab.headersLength,
                                                   body    |-> sab.bodyLength]]
    /\ cells' = [cells EXCEPT !.seen = {[by |-> cells.cellsBy,
                                         complete |-> Completed(cells.cellsBy)]}]
    /\ UNCHANGED <<sab, handlers>>
    /\ UNCHANGED <<coreVars, homeVars, netVars, abortVars, calcVars, instVars>>

\* the worker copies the body and headers bytes of the loaded lengths and
\* returns the response
CopyData ==
    /\ worker.phase = "loaded"
    /\ LET loaded == worker.response
           reads == loaded.body > 0 \/ loaded.headers > 0
       IN /\ worker' = [worker EXCEPT
                           !.phase = "returned",
                           !.response = [status  |-> loaded.status,
                                         headers |-> IF loaded.headers > 0
                                                     THEN sab.data ELSE 0,
                                         body    |-> IF loaded.body > 0
                                                     THEN sab.data ELSE 0],
                           !.ownFailed = handlers[worker.requestId] = "failed"]
          /\ cells' = IF reads
                      THEN [cells EXCEPT !.seen = @ \cup
                               {[by |-> cells.dataBy, complete |-> Completed(cells.dataBy)]}]
                      ELSE cells
    /\ UNCHANGED <<sab, handlers>>
    /\ UNCHANGED <<coreVars, homeVars, netVars, abortVars, calcVars, instVars>>

NextCells ==
    \/ BridgeRequest
    \/ HandlerStores
    \/ HandlerSignals
    \/ WaitTimedOut
    \/ WaitWoken
    \/ LoadCells
    \/ CopyData

SpecCells == Init /\ [][NextCells]_vars

\* C28: everything the worker has read from the buffer for the response it
\* returned was written by one handler invocation, and that invocation had
\* completed (it had set the control word) when the worker read it.
C28_ReadsFromOneCompletedHandler ==
    (worker.phase = "returned" /\ worker.wait = "ok")
        => /\ Cardinality(cells.seen) <= 1
           /\ \A r \in cells.seen : r.complete


----------------------------------------------------------------------------
(* The sweep at the population caps *)

\* a store that has run for a while: MAX_DESCRIPTORS values are held by the
\* plugin and MAX_REQUESTS requests are open, all created at time 0
InitFull ==
    /\ exports = ModernPlugin
    /\ ridCounter = MAX_DESCRIPTORS + MAX_REQUESTS
    /\ descriptors = [k \in 1..MAX_DESCRIPTORS |->
                         [value |-> "a", refCount |-> InitialRefCount, createdAt |-> 0]]
    /\ requests = [k \in (MAX_DESCRIPTORS + 1)..(MAX_DESCRIPTORS + MAX_REQUESTS) |->
                      [createdAt |-> 0]]
    /\ resources = [k \in (MAX_DESCRIPTORS + 1)..(MAX_DESCRIPTORS + MAX_REQUESTS) |->
                       Request]
    /\ now = 0
    /\ contexts = {}
    /\ nextContextId = 1
    /\ scopes = EmptyMap
    /\ call = NoCall
    /\ issued = <<>>
    /\ hist = EmptyMap
    /\ cleaned = {}
    /\ lastOp = NoOp
    /\ InitExt

\* the cleanup timer fires: performCleanup(); calc holds the two populations
\* before and after this sweep
Sweep ==
    /\ LET S2 == performCleanup(Store, now) IN
        /\ StoreStep(S2, NoOp)
        /\ calc' = [op |-> "sweep",
                    descriptorsBefore |-> Cardinality(DOMAIN descriptors),
                    requestsBefore    |-> Cardinality(DOMAIN requests),
                    descriptorsAfter  |-> Cardinality(DOMAIN S2.descriptors),
                    requestsAfter     |-> Cardinality(DOMAIN S2.requests)]
    /\ UNCHANGED <<now, contexts, nextContextId, scopes, exports, call, cleaned>>
    /\ UNCHANGED <<homeVars, netVars, bridgeVars, abortVars, instVars, raceVars>>

NextCap ==
    \/ StoreStdValue
    \/ CreateRequest
    \/ Tick
    \/ Sweep

SpecCap == InitFull /\ [][NextCap]_vars

\* C29: a sweep that found more value descriptors than MAX_DESCRIPTORS, or more
\* requests than MAX_REQUESTS, has left that population at or below its cap.
C29_SweepRestoresCaps ==
    calc.op = "sweep" =>
        /\ calc.descriptorsBefore > MAX_DESCRIPTORS
               => calc.descriptorsAfter <= MAX_DESCRIPTORS
        /\ calc.requestsBefore > MAX_REQUESTS
               => calc.requestsAfter <= MAX_REQUESTS


----------------------------------------------------------------------------
(* The Cookie header over repeated sends of one request *)

\* the Cookie headers a plugin sets with net.set_header(rid, "Cookie", value),
\* as their name=value pairs
CookieHeaders == {<<[name |-> <<"c">>, value |-> <<"2">>]>>}

\* per request, the Cookie header the plugin set last (a ghost kept in calc)
Explicit == IF calc.op = "none" THEN EmptyMap ELSE calc.explicit

explicitOf(d) == IF MapHas(Explicit, d) THEN Explicit[d] ELSE <<>>

\* net.set_header(descriptor, "Cookie", value): req.headers[key] = value
NetSetCookieHeader ==
    /\ \E d \in DOMAIN requests, v \in CookieHeaders :
        /\ netReqs' = [netReqs EXCEPT ![d].cookie = v]
        /\ calc' = [op |-> "set_header", rid |-> d,
                    explicit |-> MapSet(Explicit, d, v),
                    handed |-> <<>>, stored |-> <<>>]
    /\ lastNet' = NoSend
    /\ UNCHANGED <<coreVars, cookies, received>>
    /\ UNCHANGED <<homeVars, bridgeVars, abortVars, instVars, raceVars>>

\* net.send(descriptor) reaching the bridge; calc keeps the Cookie header of
\* the request object handed to httpBridge.request and the jar's cookies for
\* the url at that moment
NetSendCookies ==
    /\ \E d \in RidArgs, b \in BridgeResults :
        /\ sendReachesBridge(d)
        /\ send(d, b)
        /\ calc' = [op |-> "send", rid |-> d,
                    explicit |-> Explicit,
                    handed |-> mergedCookie(cookies, netReqs[d]),
                    stored |-> getCookiesForUrl(cookies, netReqs[d].url)]
    /\ UNCHANGED coreVars
    /\ UNCHANGED <<homeVars, bridgeVars, abortVars, instVars, raceVars>>

NextCookie ==
    \/ NetInit
    \/ NetSetUrl
    \/ NetSetCookieHeader
    \/ NetSendCookies

SpecCookie == Init /\ [][NextCookie]_vars

\* C33: after every send that reached the bridge, first or repeated, the Cookie
\* header handed to the bridge was the jar's cookies for the url, each once,
\* followed by the header the plugin set, and the request's Cookie header is
\* still the one the plugin set.
C33_CookieHeaderPerSend ==
    calc.op = "send" =>
        /\ calc.handed = calc.stored \o explicitOf(calc.rid)
        /\ netReqs[calc.rid].cookie = explicitOf(calc.rid)


----------------------------------------------------------------------------
(* std.buffer_len and std.read_buffer over one descriptor *)

\* the largest size read_buffer is called with
MaxReadSize == 5
\* calls of read_buffer on one stored value
MaxReads == 2

\* StdError
StdError_InvalidDescriptor == -1
StdError_InvalidBufferSize == -2
StdError_FailedMemoryWrite == -3

\* new TextEncoder().encode(value): one byte for "a", two for "é"
RECURSIVE utf8(_)
utf8(str) ==
    IF str = <<>> THEN <<>>
    ELSE (IF Head(str) = "a" THEN <<97>> ELSE <<195, 169>>) \o utf8(Tail(str))

RECURSIVE encodeStrings(_)
encodeStrings(arr) ==
    IF arr = <<>> THEN <<>>
    ELSE encodeString(utf8(Head(arr))) \o encodeStrings(Tail(arr))

\* encodeVecString(arr): the count, then each string
encodeVecString(arr) == <<Len(arr)>> \o encodeStrings(arr)

\* what a descriptor may hold: a Uint8Array, a string, an array of strings, or
\* something else (a number)
BytesValue(b)  == [type |-> "bytes", bytes |-> b, str |-> <<>>, arr |-> <<>>]
StringValue(s) == [type |-> "string", bytes |-> <<>>, str |-> s, arr |-> <<>>]
ArrayValue(a)  == [type |-> "array", bytes |-> <<>>, str |-> <<>>, arr |-> a]
NumberValue    == [type |-> "number", bytes |-> <<>>, str |-> <<>>, arr |-> <<>>]

BufferValues ==
    {BytesValue(b) : b \in {<<>>, <<7>>, <<7, 8, 9>>}}
    \cup {StringValue(s) : s \in {<<>>, <<"a">>, <<"é", "a">>}}
    \cup {ArrayValue(a) : a \in {<<>>, <<<<"a">>>>, <<<<"é">>, <<>>>>}}
    \cup {NumberValue}

\* the destinations read_buffer is called with: inside the memory, reaching its
\* end, and past it
OutPointers == {0, 4, MemSize - 2, MemSize + 1}

\* the descriptors the plugin passes: a negative one, the stored one, a free one
BufferRids == {-1, 1, 2}

\* updateStdValue(descriptor, value): entry.value = value
updateStdValue(S, d, value) ==
    IF MapHas(S.descriptors, d) THEN [S EXCEPT !.descriptors[d].value = value] ELSE S

\* the bytes buffer_len measures and read_buffer copies for a payload
bufferBytes(value) ==
    IF value.type = "bytes" THEN value.bytes
    ELSE IF value.type = "string" THEN utf8(value.str)
    ELSE encodeVecString(value.arr)

\* buffer_len(descriptor): what it returns and the store it leaves
buffer_len(S, d) ==
    IF d < 0 \/ ~MapHas(S.descriptors, d)
    THEN [ret |-> StdError_InvalidDescriptor, store |-> S]
    ELSE LET value == readStdValue(S, d) IN
         IF value.type = "bytes" THEN [ret |-> Len(value.bytes), store |-> S]
         ELSE IF value.type \in {"string", "array"}
         THEN LET encoded == bufferBytes(value) IN
              [ret |-> Len(encoded),
               store |-> updateStdValue(S, d, BytesValue(encoded))]
         ELSE [ret |-> StdError_InvalidDescriptor, store |-> S]

\* new Uint8Array(this.memory.buffer, offset, bytes.length) throws a RangeError
writeThrows(len, offset) == offset < 0 \/ offset + len > MemSize

\* writeBytes(bytes, offset) on memory mem
writeBytes(mem, bytes, offset) ==
    [a \in DOMAIN mem |->
        IF a >= offset /\ a < offset + Len(bytes) THEN bytes[a - offset + 1] ELSE mem[a]]

tooLarge_inclusive(size, len) == size >= len

\* if (size > bytes.length) return StdError.InvalidBufferSize
tooLarge(size, len) == size > len

\* read_buffer(descriptor, bufferPtr, size): what it returns and the memory it
\* leaves
read_buffer(S, mem, d, bufferPtr, size) ==
    IF d < 0 \/ ~MapHas(S.descriptors, d)
    THEN [ret |-> StdError_InvalidDescriptor, mem |-> mem]
    ELSE LET value == readStdValue(S, d) IN
         IF value.type \notin {"bytes", "string", "array"}
         THEN [ret |-> StdError_InvalidDescriptor, mem |-> mem]
         ELSE LET bytes == bufferBytes(value) IN
              IF tooLarge(size, Len(bytes))
              THEN [ret |-> StdError_InvalidBufferSize, mem |-> mem]
              ELSE IF writeThrows(size, bufferPtr)
              THEN [ret |-> StdError_FailedMemoryWrite, mem |-> mem]
              ELSE [ret |-> 0, mem |-> writeBytes(mem, SubSeq(bytes, 1, size), bufferPtr)]

ZeroMemory == [a \in 0..(MemSize - 1) |-> 0]

\* the host stores a value for the plugin; calc.held is what the descriptor
\* held before the last buffer_len, calc.n what that buffer_len returned
StoreBufferValue ==
    /\ Len(issued) < 1
    /\ \E v \in BufferValues :
        /\ StoreStep(storeStdValue(Store, v, now), NoOp)
        /\ calc' = [op |-> "store", rid |-> allocateRid(Store), ret |-> 0, n |-> 0,
                    held |-> v, size |-> 0, out |-> 0, mem |-> ZeroMemory,
                    reads |-> 0]
    /\ UNCHANGED <<now, contexts, nextContextId, scopes, exports, call, cleaned>>
    /\ UNCHANGED <<homeVars, netVars, bridgeVars, abortVars, instVars, raceVars>>

\* the plugin calls std.buffer_len(descriptor)
BufferLen ==
    /\ calc.op # "none"
    /\ \E d \in BufferRids :
        LET r == buffer_len(Store, d) IN
        /\ StoreStep(r.store, NoOp)
        /\ calc' = [calc EXCEPT !.op = "buffer_len", !.rid = d, !.ret = r.ret,
                                !.n = r.ret,
                                !.held = IF MapHas(descriptors, d)
                                         THEN readStdValue(Store, d) ELSE @]
    /\ UNCHANGED <<now, contexts, nextContextId, scopes, exports, call, cleaned>>
    /\ UNCHANGED <<homeVars, netVars, bridgeVars, abortVars, instVars, raceVars>>

\* the plugin calls std.read_buffer(descriptor, bufferPtr, size); calc.after
\* tells that the call before it was buffer_len of the same descriptor
ReadBuffer ==
    /\ calc.op # "none"
    /\ calc.reads < MaxReads
    /\ \E d \in BufferRids, out \in OutPointers, size \in 0..MaxReadSize :
        LET r == read_buffer(Store, calc.mem, d, out, size) IN
        calc' = [calc EXCEPT
                    !.op = IF calc.op = "buffer_len" /\ calc.rid = d
                           THEN "read_buffer after buffer_len" ELSE "read_buffer",
                    !.rid = d, !.ret = r.ret, !.size = size, !.out = out,
                    !.mem = r.mem, !.reads = @ + 1]
    /\ lastOp' = NoOp
    /\ UNCHANGED <<ridCounter, descriptors, requests, resources, now, contexts,
                   nextContextId, scopes, exports, call, issued, hist, cleaned>>
    /\ UNCHANGED <<homeVars, netVars, bridgeVars, abortVars, instVars, raceVars>>

NextBuffer ==
    \/ StoreBufferValue
    \/ BufferLen
    \/ ReadBuffer

SpecBuffer == Init /\ [][NextBuffer]_vars

\* mem[out .. out + n - 1]
MemoryAt(mem, out, n) == [i \in 1..n |-> mem[out + i - 1]]

\* C34: when buffer_len of a descriptor holding bytes, a string or an array of
\* strings returned n and the next call is read_buffer of that descriptor with
\* size n into n bytes of the plugin's memory, read_buffer returns 0 and those
\* n bytes are the encoded bytes of what the descriptor held.
C34_ReadBufferAfterBufferLen ==
    (/\ calc.op = "read_buffer after buffer_len"
     /\ MapHas(descriptors, calc.rid)
     /\ calc.held.type \in {"bytes", "string", "array"}
     /\ calc.size = calc.n
     /\ ~writeThrows(calc.n, calc.out))
        => /\ calc.ret = 0
           /\ calc.n = Len(bufferBytes(calc.held))
           /\ MemoryAt(calc.mem, calc.out, calc.n) = bufferBytes(calc.held)

\* an array of a two-byte string and an empty one, measured and then read:
\* count, length, the two bytes, length
C34_Witness ==
    /\ calc.op = "read_buffer after buffer_len"
    /\ calc.held = ArrayValue(<<<<"é">>, <<>>>>)
    /\ calc.n = 5
    /\ calc.size = 5
    /\ calc.out = 4
    /\ calc.ret = 0
    /\ MemoryAt(calc.mem, 4, 5) = <<2, 2, 195, 169, 0>>


----------------------------------------------------------------------------
(* The legacy streaming reads of a response: get_data_size and get_data *)

\* the largest size get_data is called with
MaxGetSize == 4

\* the destinations get_data is called with: inside the memory and past it
GetDataPointers == {0, MemSize + 1}

\* the plugin calls net.get_data_size(descriptor)
GetDataSize ==
    /\ \E d \in {-1} \cup RidArgs :
        lastNet' = [op |-> "get_data_size", rid |-> d, ret |-> get_data_size(d),
                    bridge |-> "none"]
    /\ UNCHANGED <<netReqs, cookies, received>>
    /\ UNCHANGED <<coreVars, netOthers>>

\* the plugin calls net.get_data(descriptor, bufferPtr, size); lastNet keeps
\* the cursor the call found, the bytes it wrote and whether writeBytes threw
GetData ==
    /\ \E d \in {-1} \cup RidArgs, out \in GetDataPointers, size \in (-1)..MaxGetSize :
        LET copied == get_data(d, size)
            threw  == copied # <<>> /\ writeThrows(Len(copied), out)
            found  == IF MapHas(requests, d) THEN netReqs[d].response.bytesRead ELSE 0
        IN
        /\ netReqs' = IF copied # <<>> /\ ~threw
                      THEN [netReqs EXCEPT ![d].response.bytesRead = @ + size]
                      ELSE netReqs
        /\ lastNet' = [op |-> "get_data", rid |-> d, ret |-> 0, bridge |-> "none",
                       size |-> size, found |-> found, threw |-> threw,
                       copied |-> IF threw THEN <<>> ELSE copied]
    /\ UNCHANGED <<cookies, received>>
    /\ UNCHANGED <<coreVars, netOthers>>

\* net.set_url(descriptor, url) on a request that has no url yet
NetSetUrlOnce ==
    /\ \E d \in DOMAIN requests :
        /\ netReqs[d].url = NoUrl
        /\ netReqs' = [netReqs EXCEPT ![d].url = HostX]
    /\ lastNet' = NoSend
    /\ UNCHANGED <<coreVars, netOthers, cookies, received>>

NextLegacyData ==
    \/ NetInit
    \/ NetSetUrlOnce
    \/ NetSend
    \/ GetDataSize
    \/ GetData

SpecLegacyData == Init /\ [][NextLegacyData]_vars

\* the response the last legacy call was made on, when there is one
LastResponse == netReqs[lastNet.rid].response

OnResponse == MapHas(requests, lastNet.rid) /\ LastResponse.present

\* C35: the cursor of every response stays within 0 .. body length;
\* get_data_size returns the body length minus the cursor; a get_data with a
\* positive size that fits (into memory it can write) has delivered the size
\* bytes that follow the cursor it found and advanced the cursor by size; a
\* get_data that would read past the end has delivered nothing and left the
\* cursor where it was.
C35_LegacyCursor ==
    /\ \A d \in DOMAIN netReqs :
          /\ 0 <= netReqs[d].response.bytesRead
          /\ netReqs[d].response.bytesRead <= Len(netReqs[d].response.data)
    /\ (lastNet.op = "get_data_size" /\ OnResponse)
          => lastNet.ret = Len(LastResponse.data) - LastResponse.bytesRead
    /\ (lastNet.op = "get_data" /\ OnResponse /\ lastNet.size > 0 /\ ~lastNet.threw)
          => IF lastNet.found + lastNet.size <= Len(LastResponse.data)
             THEN /\ lastNet.copied = SubSeq(LastResponse.data, lastNet.found + 1,
                                             lastNet.found + lastNet.size)
                  /\ LastResponse.bytesRead = lastNet.found + lastNet.size
             ELSE /\ lastNet.copied = <<>>
                  /\ LastResponse.bytesRead = lastNet.found

\* the second and third byte of a three-byte body, read after the first
C35_Witness ==
    /\ lastNet.op = "get_data"
    /\ OnResponse
    /\ lastNet.found = 1
    /\ lastNet.size = 2
    /\ lastNet.copied = <<"c", "d">>
    /\ LastResponse.bytesRead = 3
    /\ get_data_size(lastNet.rid) = 0


----------------------------------------------------------------------------
(* free_result after an export has returned a result pointer *)

\* the entry points that call an export returning a result pointer
ResultEntryPoints == EntryPoints \cup {"getFilters", "getHome", "getListings"}

\* the entry points that return their default at once on a negative pointer
ReturnsOnNegative == {"modifyImageRequest", "processPageImage"}

\* the condition under which the entry point calls free_result:
\* `if (freeResult)` in modifyImageRequest, `if (freeResult && resultPtr > 0)`
\* in all the others
callsFreeResult(ep, exported, resultPtr) ==
    IF ep = "modifyImageRequest" THEN exported ELSE exported /\ resultPtr > 0

\* the export of entry point ep returns resultPtr; free_result is exported or not
ExportReturns ==
    /\ calc.op \in {"none", "entry returned"}
    /\ \E ep \in ResultEntryPoints, exported \in BOOLEAN, resultPtr \in Pointers :
        calc' = [op |-> IF ep \in ReturnsOnNegative /\ resultPtr < 0
                        THEN "entry returned" ELSE "export returned",
                 ep |-> ep, exported |-> exported, ptr |-> resultPtr,
                 copied |-> FALSE, freed |-> <<>>]
    /\ UNCHANGED calcOthers

\* readResult(resultPtr) / readResultPayload(memory, resultPtr): the payload,
\* if there is one, is copied with data.slice()
CopyResult ==
    /\ calc.op = "export returned"
    /\ calc' = [calc EXCEPT !.op = "result read", !.copied = TRUE]
    /\ UNCHANGED calcOthers

\* the entry point's call of free_result, if it makes one, and the rest of it
FreeAndReturn ==
    /\ calc.op = "result read"
    /\ calc' = [calc EXCEPT
                  !.op = "entry returned",
                  !.freed = IF callsFreeResult(calc.ep, calc.exported, calc.ptr)
                            THEN Append(@, [ptr |-> calc.ptr, copied |-> calc.copied])
                            ELSE @]
    /\ UNCHANGED calcOthers

NextFree ==
    \/ ExportReturns
    \/ CopyResult
    \/ FreeAndReturn

SpecFree == Init /\ [][NextFree]_vars

\* C36: free_result is called only with a positive pointer whose payload has
\* been copied out, at most once per export call, and, when it is exported and
\* the pointer is positive, exactly once by the time the entry point returns.
C36_FreeOnceAfterCopy ==
    calc.op \in {"export returned", "result read", "entry returned"} =>
        /\ \A i \in DOMAIN calc.freed :
              calc.freed[i].copied /\ calc.freed[i].ptr > 0
        /\ Len(calc.freed) <= 1
        /\ (calc.op = "entry returned" /\ calc.exported /\ calc.ptr > 0)
              => Len(calc.freed) = 1


----------------------------------------------------------------------------
(* The agent bridge's request(): fetch, Cloudflare solve, poll, retry *)

\* for (let i = 0; i < 60; i++): polls of one solve
MaxPolls == 60

\* what the agent's /fetch may give: curl fails or times out, output that does
\* not parse, a response, or a Cloudflare challenge with its url
FetchAnswers == {"error", "invalid", "response", "challenge"}
\* what /solve-cf may give
SolveAnswers == {"started", "not started", "no output"}
\* what /solve-cf/:id may give
PollAnswers == {"solved", "failed", "closed", "pending", "no output"}

\* the response request() returns after the agent's answer
agentResponse(answer) ==
    IF answer \in {"error", "invalid"} THEN 0
    ELSE IF answer = "response" THEN 200
    ELSE 403

\* net.send calls bridge.request(req)
AgentRequest ==
    /\ calc.op \in {"none", "returned"}
    /\ calc' = [op |-> "fetch", i |-> 0, answer |-> "none", status |-> 0]
    /\ UNCHANGED calcOthers

\* spawnSync curl .../fetch and what follows from its answer
AgentFetch ==
    /\ calc.op = "fetch"
    /\ \E a \in FetchAnswers :
        calc' = IF a = "challenge"
                THEN [calc EXCEPT !.op = "solve", !.answer = a]
                ELSE [calc EXCEPT !.op = "returned", !.answer = a,
                                  !.status = agentResponse(a)]
    /\ UNCHANGED calcOthers

\* spawnSync curl .../solve-cf
AgentSolve ==
    /\ calc.op = "solve"
    /\ \E a \in SolveAnswers :
        calc' = IF a = "started"
                THEN [calc EXCEPT !.op = "poll", !.i = 0, !.answer = a]
                ELSE [calc EXCEPT !.op = "returned", !.answer = a,
                                  !.status = agentResponse(a)]
    /\ UNCHANGED calcOthers

\* one round of the poll loop: "solved" retries with this.request(req), whose
\* result is returned as it is; "failed" and "closed" leave the loop; anything
\* else sleeps a second and polls again
AgentPoll ==
    /\ calc.op = "poll"
    /\ calc.i < MaxPolls
    /\ \E a \in PollAnswers :
        calc' = IF a = "solved"
                THEN [calc EXCEPT !.op = "fetch", !.i = 0, !.answer = a]
                ELSE IF a \in {"failed", "closed"}
                THEN [calc EXCEPT !.op = "returned", !.answer = a,
                                  !.status = agentResponse(a)]
                ELSE [calc EXCEPT !.i = @ + 1, !.answer = a]
    /\ UNCHANGED calcOthers

\* the poll loop ends after MaxPolls rounds: the Cloudflare error is returned
AgentPollsExhausted ==
    /\ calc.op = "poll"
    /\ calc.i = MaxPolls
    /\ calc' = [calc EXCEPT !.op = "returned", !.status = agentResponse("pending")]
    /\ UNCHANGED calcOthers

NextAgent ==
    \/ AgentRequest
    \/ AgentFetch
    \/ AgentSolve
    \/ AgentPoll
    \/ AgentPollsExhausted

\* request() is synchronous code: it takes its next step whenever it has one
SpecAgent == Init /\ [][NextAgent]_vars /\ WF_vars(NextAgent)

\* C37: every call of the agent bridge's request() returns, whatever the agent
\* answers.
C37_AgentRequestReturns == (calc.op = "fetch") ~> (calc.op = "returned")

\* ---------------------------------------------------------------------------
\* Filter values on the wire (postcard.ts encodeFilterValue / decodeFilterValue)
\* ---------------------------------------------------------------------------

\* FilterType (types.ts)
FilterType_Title == 0
FilterType_Author == 1
FilterType_Select == 2
FilterType_Sort == 3
FilterType_Check == 4
FilterType_Group == 5
FilterType_Genre == 6

\* a FilterValue: type, name and the value of its kind
FilterValue(type, name, str, index, ascending, check, included, excluded) ==
    [type |-> type, name |-> name, str |-> str, index |-> index,
     ascending |-> ascending, check |-> check,
     included |-> included, excluded |-> excluded]

TextFilter(type, name, str) ==
    FilterValue(type, name, str, 0, FALSE, FALSE, <<>>, <<>>)
SortFilter(name, index, ascending) ==
    FilterValue(FilterType_Sort, name, <<>>, index, ascending, FALSE, <<>>, <<>>)
CheckFilter(name, check) ==
    FilterValue(FilterType_Check, name, <<>>, 0, FALSE, check, <<>>, <<>>)
SelectFilter(name, str) ==
    FilterValue(FilterType_Select, name, str, 0, FALSE, FALSE, <<>>, <<>>)
GenreFilter(name, included, excluded) ==
    FilterValue(FilterType_Genre, name, <<>>, 0, FALSE, FALSE, included, excluded)
GroupFilter(name) ==
    FilterValue(FilterType_Group, name, <<>>, 0, FALSE, FALSE, <<>>, <<>>)

FilterNames == {<<>>, <<"a">>, <<"é", "a">>}
FilterStrings == {<<>>, <<"é">>}
FilterIndexes == {0, -3}
FilterLists == {<<>>, << <<"a">> >>}

\* the filter values of kind Text, Sort, Check, Select and MultiSelect
FilterValues ==
    { TextFilter(t, n, s) :
        t \in {FilterType_Title, FilterType_Author}, n \in FilterNames, s \in FilterStrings }
    \cup { SortFilter(n, i, a) : n \in FilterNames, i \in FilterIndexes, a \in BOOLEAN }
    \cup { CheckFilter(n, c) : n \in FilterNames, c \in BOOLEAN }
    \cup { SelectFilter(n, s) : n \in FilterNames, s \in FilterStrings }
    \cup { GenreFilter(n, i, e) : n \in FilterNames, i \in FilterLists, e \in FilterLists }

\* the bytes before and after the encoded value in the buffer that is decoded
FilterPrefixes == {<<>>, <<9>>}
FilterSuffixes == {<<>>, <<0, 0, 0>>}

\* encodeBool(val)
encodeBool(val) == IF val THEN <<1>> ELSE <<0>>

\* encodeFilterValue(filter): the variant, the id, then the value of the variant
encodeFilterValue(filter) ==
    LET id == encodeString(utf8(filter.name)) IN
    IF filter.type \in {FilterType_Title, FilterType_Author}
    THEN <<0>> \o id \o encodeString(utf8(filter.str))
    ELSE IF filter.type = FilterType_Sort
    THEN <<1>> \o id \o encodeI32(filter.index) \o encodeBool(filter.ascending)
    ELSE IF filter.type = FilterType_Check
    THEN <<2>> \o id \o encodeI32(IF filter.check THEN 1 ELSE 0)
    ELSE IF filter.type = FilterType_Select
    THEN <<3>> \o id \o encodeString(utf8(filter.str))
    ELSE IF filter.type = FilterType_Genre
    THEN <<4>> \o id \o encodeVecString(filter.included)
                    \o encodeVecString(filter.excluded)
    ELSE <<0>> \o id \o encodeString(<<>>)

RECURSIVE utf8Decode(_)
\* TextDecoder.decode(bytes)
utf8Decode(bytes) ==
    IF bytes = <<>> THEN <<>>
    ELSE IF Head(bytes) = 97 THEN <<"a">> \o utf8Decode(Tail(bytes))
    ELSE IF Head(bytes) = 195 /\ Len(bytes) >= 2 /\ bytes[2] = 169
    THEN <<"é">> \o utf8Decode(Tail(Tail(bytes)))
    ELSE <<"?">> \o utf8Decode(Tail(bytes))

\* decodeString(bytes, offset), the bytes decoded as text
decodeText(bytes, offset) ==
    LET s == decodeString(bytes, offset) IN
    IF ~s.ok THEN DecodeError ELSE Decoded(utf8Decode(s.value), s.pos)

\* decodeI32(bytes, offset): new DataView(buffer, offset, 4) throws when fewer
\* than four bytes are left; getInt32(0, true) reads four little-endian bytes
decodeI32(bytes, offset) ==
    IF offset + 4 > Len(bytes) THEN DecodeError
    ELSE Decoded(getInt32(bytes, offset), offset + 4)

\* decodeBool(bytes, offset): bytes[offset] !== 0
decodeBool(bytes, offset) ==
    Decoded(IF offset < Len(bytes) THEN bytes[offset + 1] # 0 ELSE TRUE, offset + 1)

RECURSIVE decodeTexts(_, _, _, _)
\* the loop of decodeVec over decodeString
decodeTexts(bytes, pos, left, items) ==
    IF left = 0 THEN Decoded(items, pos)
    ELSE LET item == decodeText(bytes, pos) IN
         IF ~item.ok THEN DecodeError
         ELSE decodeTexts(bytes, item.pos, left - 1, Append(items, item.value))

\* decodeVec(bytes, offset, decodeString)
decodeVecString(bytes, offset) ==
    LET len == decodeVarint(bytes, offset) IN
    IF ~len.ok THEN DecodeError ELSE decodeTexts(bytes, len.pos, len.value, <<>>)

\* decodeFilterValue(bytes, offset): [value, newOffset], or throws
decodeFilterValue(bytes, offset) ==
    LET variant == decodeVarint(bytes, offset) IN
    IF ~variant.ok THEN DecodeError
    ELSE LET id == decodeText(bytes, variant.pos) IN
    IF ~id.ok THEN DecodeError
    ELSE IF variant.value = 0 THEN
        LET value == decodeText(bytes, id.pos) IN
        IF ~value.ok THEN DecodeError
        ELSE Decoded(TextFilter(FilterType_Title, id.value, value.value), value.pos)
    ELSE IF variant.value = 1 THEN
        LET index == decodeI32(bytes, id.pos) IN
        IF ~index.ok THEN DecodeError
        ELSE LET ascending == decodeBool(bytes, index.pos) IN
             Decoded(SortFilter(id.value, index.value, ascending.value), ascending.pos)
    ELSE IF variant.value = 2 THEN
        LET value == decodeI32(bytes, id.pos) IN
        IF ~value.ok THEN DecodeError
        ELSE Decoded(CheckFilter(id.value, value.value # 0), value.pos)
    ELSE IF variant.value = 3 THEN
        LET value == decodeText(bytes, id.pos) IN
        IF ~value.ok THEN DecodeError
        ELSE Decoded(SelectFilter(id.value, value.value), value.pos)
    ELSE IF variant.value = 4 THEN
        LET included == decodeVecString(bytes, id.pos) IN
        IF ~included.ok THEN DecodeError
        ELSE LET excluded == decodeVecString(bytes, included.pos) IN
             IF ~excluded.ok THEN DecodeError
             ELSE Decoded(GenreFilter(id.value, included.value, excluded.value),
                          excluded.pos)
    ELSE IF variant.value = 5 THEN Decoded(GroupFilter(id.value), id.pos)
    ELSE DecodeError

\* a filter value is encoded, placed in a buffer and decoded from its offset
FilterRoundTrip ==
    /\ \E v \in FilterValues, before \in FilterPrefixes, after \in FilterSuffixes :
        LET enc == encodeFilterValue(v)
            out == decodeFilterValue(before \o enc \o after, Len(before))
        IN calc' = [op |-> "decodeFilterValue", in |-> v, enc |-> enc,
                    offset |-> Len(before), after |-> after,
                    ok |-> out.ok, pos |-> out.pos,
                    out |-> IF out.ok THEN out.value ELSE GroupFilter(<<>>)]
    /\ UNCHANGED calcOthers

NextFilter == FilterRoundTrip

SpecFilter == Init /\ [][NextFilter]_vars

\* C39: decoding the bytes the filter-value encoder produced for a value of
\* kind Text, Sort, Check, Select or MultiSelect yields that value again and
\* consumes exactly those bytes.
C39_FilterValueRoundTrip ==
    calc.op = "decodeFilterValue" =>
        /\ calc.ok
        /\ calc.out = calc.in
        /\ calc.pos = calc.offset + Len(calc.enc)

\* ---------------------------------------------------------------------------
\* Plugin settings of the async runtimes (async/index.node.ts, async/worker.ts,
\* async/common.ts)
\* ---------------------------------------------------------------------------

\* the values of settings: strings, arrays of strings, undefined
SettingString(s) == [kind |-> "string", str |-> s, arr |-> <<>>]
SettingArray(a) == [kind |-> "array", str |-> "", arr |-> a]
SettingUndefined == [kind |-> "undefined", str |-> "", arr |-> <<>>]

SettingKeys == {"url", "languages", "k"}

\* Record<string, unknown>: an absent key reads as undefined
EmptySettings == [key \in SettingKeys |-> SettingUndefined]

\* the items of settings.json: a setting with key and default, or a group
SettingItem(key, default) ==
    [type |-> "setting", key |-> key, default |-> default, items |-> <<>>]
SettingGroup(items) ==
    [type |-> "group", key |-> "", default |-> SettingUndefined, items |-> items]

SettingsJsons ==
    { <<>>,
      << SettingItem("url", SettingString("json-url")) >>,
      << SettingGroup(<< SettingItem("k", SettingString("json-k")),
                         SettingItem("languages", SettingArray(<<"ja">>)) >>) >>,
      << SettingItem("k", SettingUndefined),
         SettingGroup(<< SettingItem("url", SettingString("json-url")) >>),
         SettingItem("", SettingString("json-k")) >> }

\* the manifest fields the defaults are derived from
Manifests ==
    [ allowsBaseUrlSelect : BOOLEAN,
      urls : {<<>>, <<"m1", "m2">>},
      languages : {<<>>, <<"en", "fr">>},
      languageSelectType : {"single", "multi"} ]

\* what the user's settings store may hold
UserSettings ==
    { [key \in SettingKeys |->
          IF key \in set
          THEN (IF key = "languages" THEN SettingArray(<<"de">>)
                ELSE SettingString("user-" \o key))
          ELSE SettingUndefined] : set \in SUBSET SettingKeys }

AsyncRuntimes == {"node", "worker"}

RECURSIVE extractInto(_, _)
\* the loops of extractSettingsDefaults: an item with a key and a default sets
\* defaults[key]; a group contributes its sub-items
extractInto(defaults, items) ==
    IF items = <<>> THEN defaults
    ELSE LET item == Head(items)
             next == IF item.type = "group"
                     THEN extractInto(defaults, item.items)
                     ELSE IF item.key # "" /\ item.default # SettingUndefined
                     THEN [defaults EXCEPT ![item.key] = item.default]
                     ELSE defaults
         IN extractInto(next, Tail(items))

\* extractSettingsDefaults(settingsJson)
extractSettingsDefaults(settingsJson) == extractInto(EmptySettings, settingsJson)

\* applyManifestDefaults(settings, manifest): url and languages are filled in
\* when the settings do not define them
applyManifestDefaults(settings, manifest) ==
    LET withUrl ==
            IF manifest.allowsBaseUrlSelect /\ Len(manifest.urls) > 0
               /\ settings["url"] = SettingUndefined
            THEN [settings EXCEPT !["url"] = SettingString(manifest.urls[1])]
            ELSE settings
    IN IF Len(manifest.languages) > 0 /\ withUrl["languages"] = SettingUndefined
       THEN [withUrl EXCEPT !["languages"] =
                SettingArray(IF manifest.languageSelectType = "multi"
                             THEN manifest.languages
                             ELSE <<manifest.languages[1]>>)]
       ELSE withUrl

\* { ...a, ...b }
spread(a, b) ==
    [key \in SettingKeys |-> IF b[key] # SettingUndefined THEN b[key] ELSE a[key]]

\* the defaults re-applied, then the user's settings laid over them
mergeSettings(settingsDefaults, manifest, userSettings) ==
    spread(applyManifestDefaults(settingsDefaults, manifest), userSettings)

\* updateSettings(newSettings): the worker merges with the defaults; the Node
\* source assigns currentSettings = newSettings
updateSettings(runtime, settingsDefaults, manifest, newSettings) ==
    IF runtime = "worker"
    THEN mergeSettings(settingsDefaults, manifest, newSettings)
    ELSE newSettings

\* loadSource / WorkerSource.load: the defaults are extracted and merged with
\* the user's settings of the moment
LoadSettings ==
    /\ calc.op = "none"
    /\ \E runtime \in AsyncRuntimes, settingsJson \in SettingsJsons,
          manifest \in Manifests, userSettings \in UserSettings :
        LET settingsDefaults == extractSettingsDefaults(settingsJson) IN
        calc' = [op |-> "settings", runtime |-> runtime, last |-> "load",
                 settingsDefaults |-> settingsDefaults, manifest |-> manifest,
                 user |-> userSettings,
                 currentSettings |->
                     mergeSettings(settingsDefaults, manifest, userSettings)]
    /\ UNCHANGED calcOthers

\* the user changes the settings and the store notifies its subscriber, which
\* reads them with settings.get()
SettingsNotify ==
    /\ calc.op = "settings"
    /\ \E newUserSettings \in UserSettings :
        calc' = [calc EXCEPT
                    !.last = "subscribe",
                    !.user = newUserSettings,
                    !.currentSettings =
                        mergeSettings(calc.settingsDefaults, calc.manifest,
                                      newUserSettings)]
    /\ UNCHANGED calcOthers

\* the host calls updateSettings with the user's settings
UpdateSettings ==
    /\ calc.op = "settings"
    /\ \E newSettings \in UserSettings :
        calc' = [calc EXCEPT
                    !.last = "updateSettings",
                    !.user = newSettings,
                    !.currentSettings =
                        updateSettings(calc.runtime, calc.settingsDefaults,
                                       calc.manifest, newSettings)]
    /\ UNCHANGED calcOthers

NextSettings ==
    \/ LoadSettings
    \/ SettingsNotify
    \/ UpdateSettings

SpecSettings == Init /\ [][NextSettings]_vars

\* settingsGetter(key)
settingsGetter(key) == calc.currentSettings[key]

\* the default derived from the manifest for a key, undefined when there is none
ManifestDefault(key) == applyManifestDefaults(EmptySettings, calc.manifest)[key]

\* the user's value, else the manifest-derived default, else the settings.json
\* default
ExpectedSetting(key) ==
    IF calc.user[key] # SettingUndefined THEN calc.user[key]
    ELSE IF ManifestDefault(key) # SettingUndefined THEN ManifestDefault(key)
    ELSE calc.settingsDefaults[key]

\* C40: after any sequence of settings changes, a settings lookup returns the
\* user's value for the key if there is one, otherwise the manifest-derived
\* default, otherwise the settings.json default.
C40_SettingsLookup ==
    calc.op = "settings" =>
        \A key \in SettingKeys : settingsGetter(key) = ExpectedSetting(key)

====
